---- MODULE Spec2Model ----
(***************************************************************************)
(* Model of the knowledge-graph store of mcp-memory-sqlite: the            *)
(* DatabaseManager class over its SQLite tables (entities, observations,   *)
(* relations).  Strings are sequences of one-character strings, tables    *)
(* are sequences of rows in rowid order.                                   *)
(***************************************************************************)
EXTENDS Integers, Sequences, FiniteSets, TLC

VARIABLES db, now, last, instance, connections, twin, supplied, pending, tx

vars == <<db, now, last, instance, connections, twin, supplied, pending, tx>>

----------------------------------------------------------------------------
(* Bounds *)

MaxEntityBatch == 2
MaxRelationBatch == 2
MaxClock == 1

----------------------------------------------------------------------------
(* Strings *)

Whitespace == {" "}

\* variant: only the empty string counts as blank
is_empty(s) == s = <<>>

\* s.trim() === ''
IsBlank(s) == \A i \in 1..Len(s) : s[i] \in Whitespace

Range(s) == {s[i] : i \in 1..Len(s)}

SeqsUpTo(S, n) == UNION {[1..k -> S] : k \in 0..n}

----------------------------------------------------------------------------
(* Input pools *)

nA == <<"a">>
nB == <<"b">>
nBlank == <<" ">>
tT == <<"t">>
tU == <<"u", "b">>
oX == <<"x">>
oY == <<"y">>
oUA == <<"u", "a">>
rR == <<"r">>
rS == <<"s">>

Names == {nA, nB}

EntityInput(n, t, o) == [name |-> n, entityType |-> t, observations |-> o]

ValidEntityInputs ==
    { EntityInput(nA, tT, <<oX>>),
      EntityInput(nA, tU, <<oY, oX>>),
      EntityInput(nB, tT, <<oUA>>) }

InvalidEntityInputs ==
    { EntityInput(nBlank, tT, <<oX>>),
      EntityInput(nA, <<>>, <<oX>>),
      EntityInput(nA, tT, <<>>),
      EntityInput(nA, tT, <<oY, nBlank>>) }

EntityInputs == ValidEntityInputs \cup InvalidEntityInputs

EntityBatches == SeqsUpTo(EntityInputs, MaxEntityBatch)

Relation(f, t, ty) == [from |-> f, to |-> t, relationType |-> ty]

RelationInputs ==
    { Relation(nA, nB, rR), Relation(nB, nA, rR),
      Relation(nA, nA, rR), Relation(nA, nB, rS) }

RelationBatches == SeqsUpTo(RelationInputs, MaxRelationBatch)

Queries == {<<"A">>, <<"u">>, <<"b">>, <<" ">>}

Limits == {<<>>, <<1>>}

(* A store with more entities than read_graph returns: eleven entities     *)
(* written by three create_entities calls.                                 *)

Letters == <<"a", "b", "c", "d", "e", "f", "g", "h", "i", "j", "k">>

RecentName(i) == <<Letters[i]>>

RecentBatch(lo, hi) ==
    [i \in 1..(hi - lo + 1) |-> EntityInput(RecentName(lo + i - 1), tT, <<oX>>)]

RecentBatches == {RecentBatch(1, 5), RecentBatch(6, 10), RecentBatch(11, 11)}

RecentRelationBatches ==
    { <<Relation(RecentName(1), RecentName(2), rR)>>,
      <<Relation(RecentName(1), RecentName(11), rR)>> }

RecentDeletes == {RecentName(1), RecentName(11)}

(* A store for text search: types written with each of the separators, an  *)
(* entity with two observations that match the same query, upper case on    *)
(* the stored and on the query side.                                        *)

SearchP == EntityInput(<<"p">>, <<"w", "_", "d">>, <<<<"x", "a">>, <<"x", "b">>>>)
SearchQ == EntityInput(<<"q">>, <<"W", " ", "d">>, <<<<"é">>>>)
SearchR == EntityInput(<<"r">>, <<"w", "-", "d">>, <<<<"x", "a">>>>)

SearchEntityInputs == {SearchP, SearchQ, SearchR}

SearchEntityBatches == SeqsUpTo(SearchEntityInputs, MaxEntityBatch)

SearchNames == {e.name : e \in SearchEntityInputs}

SeparatorQueries == {<<"w", " ", "d">>, <<"w", "-", "d">>, <<"w", "_", "d">>}

SearchQueries ==
    SeparatorQueries
    \cup {<<"w", "_", "-", "d">>, <<"P">>, <<"X">>, <<"w", "d">>,
          <<" ">>, <<>>, <<"-">>, <<"É">>}

SearchLimits == {<<>>, <<0>>, <<1>>, <<2>>}

(* A store with more matching entities than a search may return.          *)

Digits == <<"0", "1", "2", "3", "4", "5", "6", "7">>

LimitName(i) == <<Digits[(i \div 8) + 1], Digits[(i % 8) + 1]>>

LimitBatch(lo, hi) ==
    [i \in 1..(hi - lo + 1) |-> EntityInput(LimitName(lo + i - 1), tT, <<oX>>)]

LimitBatches == {LimitBatch(1, 25), LimitBatch(26, 51)}

LimitDeletes == {LimitName(51)}

LimitQueries == {<<"t">>, <<"0", "7">>, <<"0">>, <<"z">>}

LimitLimits == {<<>>, <<-1>>, <<0>>, <<1>>, <<50>>, <<1000>>}

----------------------------------------------------------------------------
(* Tables *)

EmptyDb == [entities |-> <<>>, observations |-> <<>>, relations |-> <<>>]

\* SELECT name FROM entities WHERE name = ?
entity_exists(d, name) ==
    \E i \in 1..Len(d.entities) : d.entities[i].name = name

\* SELECT content FROM observations WHERE entity_name = ?
select_observations(rows, name) ==
    LET owned == SelectSeq(rows, LAMBDA r : r.entity_name = name)
    IN  [i \in 1..Len(owned) |-> owned[i].content]

\* variant: the statements already run are kept when fn throws
transaction_no_rollback(d, r) == r.db

\* db.transaction(fn)(): COMMIT when fn returns, ROLLBACK when it throws
transaction(d, r) == IF r.ok THEN r.db ELSE d

Ok(d) == [ok |-> TRUE, err |-> "none", db |-> d]
Fail(d, e) == [ok |-> FALSE, err |-> e, db |-> d]

----------------------------------------------------------------------------
(* create_entities *)

\* variant: every item is accepted
validate_nothing(e) == "none"

validate_entity(e) ==
    IF e.name = <<>> \/ IsBlank(e.name) THEN "invalid_name"
    ELSE IF e.entityType = <<>> \/ IsBlank(e.entityType) THEN "invalid_type"
    ELSE IF Len(e.observations) = 0 THEN "no_observations"
    ELSE IF ~ \A i \in 1..Len(e.observations) : ~IsBlank(e.observations[i])
         THEN "invalid_observations"
    ELSE "none"

\* variant: a plain INSERT for every item
insert_entity_row(entities, e, t) ==
    Append(entities,
           [name |-> e.name, entity_type |-> e.entityType, created_at |-> t])

\* UPDATE entities SET entity_type = ? WHERE name = ?   (entity exists)
\* INSERT INTO entities (name, entity_type) VALUES (?, ?)   (otherwise)
upsert_entity_row(entities, e, t) ==
    IF \E i \in 1..Len(entities) : entities[i].name = e.name
    THEN [i \in 1..Len(entities) |->
            IF entities[i].name = e.name
            THEN [entities[i] EXCEPT !.entity_type = e.entityType]
            ELSE entities[i]]
    ELSE Append(entities,
                [name |-> e.name, entity_type |-> e.entityType, created_at |-> t])

\* variant: DELETE FROM observations, without the WHERE clause
clear_observations_all(rows, name) == <<>>

\* variant: the old observations are kept
clear_observations_keep(rows, name) == rows

\* DELETE FROM observations WHERE entity_name = ?
clear_observations(rows, name) ==
    SelectSeq(rows, LAMBDA r : r.entity_name # name)

\* INSERT INTO observations (entity_name, content) VALUES (?, ?), per observation
insert_observations(rows, name, obs) ==
    rows \o [i \in 1..Len(obs) |-> [entity_name |-> name, content |-> obs[i]]]

\* variant: INSERT OR REPLACE, the row is written anew
replace_entity(d, e, t) ==
    [d EXCEPT !.entities =
                  Append(SelectSeq(d.entities, LAMBDA r : r.name # e.name),
                         [name |-> e.name, entity_type |-> e.entityType,
                          created_at |-> t]),
              !.observations =
                  insert_observations(clear_observations(d.observations, e.name),
                                      e.name, e.observations)]

upsert_entity(d, e, t) ==
    [d EXCEPT !.entities = upsert_entity_row(d.entities, e, t),
              !.observations =
                  insert_observations(clear_observations(d.observations, e.name),
                                      e.name, e.observations)]

\* the body of the transaction: stops at the first item that throws
RECURSIVE create_entities_body(_, _, _)
create_entities_body(d, batch, t) ==
    IF batch = <<>> THEN Ok(d)
    ELSE LET v == validate_entity(Head(batch))
         IN  IF v # "none" THEN Fail(d, v)
             ELSE create_entities_body(upsert_entity(d, Head(batch), t),
                                       Tail(batch), t)

create_entities(d, batch, t) ==
    LET r == create_entities_body(d, batch, t)
    IN  [r EXCEPT !.db = transaction(d, r)]

NoResult == [entities |-> <<>>, relations |-> <<>>, relatedEntities |-> <<>>]

----------------------------------------------------------------------------
(* create_relations *)

\* variant: foreign keys are declared but not enforced
foreign_keys_off(d, rel) == TRUE

\* FOREIGN KEY (source) / (target) REFERENCES entities(name), foreign_keys = ON
foreign_keys_ok(d, rel) ==
    entity_exists(d, rel.from) /\ entity_exists(d, rel.to)

\* variant: a table without the UNIQUE constraint
relation_stored_never(rows, rel) == FALSE

\* UNIQUE(source, target, relation_type)
relation_stored(rows, rel) ==
    \E i \in 1..Len(rows) :
        /\ rows[i].source = rel.from
        /\ rows[i].target = rel.to
        /\ rows[i].relation_type = rel.relationType

relation_row(rel) ==
    [source |-> rel.from, target |-> rel.to, relation_type |-> rel.relationType]

\* variant: a plain INSERT, which fails on a stored triple
insert_relation(d, rel) ==
    IF relation_stored(d.relations, rel) THEN Fail(d, "unique")
    ELSE IF ~foreign_keys_ok(d, rel) THEN Fail(d, "foreign_key")
    ELSE Ok([d EXCEPT !.relations = Append(d.relations, relation_row(rel))])

\* INSERT OR IGNORE INTO relations (source, target, relation_type) VALUES (?, ?, ?)
\* OR IGNORE skips a row that conflicts with the UNIQUE constraint; a foreign
\* key violation is not a conflict it covers and fails the statement.
insert_or_ignore_relation(d, rel) ==
    IF relation_stored(d.relations, rel) THEN Ok(d)
    ELSE IF ~foreign_keys_ok(d, rel) THEN Fail(d, "foreign_key")
    ELSE Ok([d EXCEPT !.relations = Append(d.relations, relation_row(rel))])

RECURSIVE create_relations_body(_, _)
create_relations_body(d, batch) ==
    IF batch = <<>> THEN Ok(d)
    ELSE LET r == insert_or_ignore_relation(d, Head(batch))
         IN  IF ~r.ok THEN r
             ELSE create_relations_body(r.db, Tail(batch))

create_relations(d, batch) ==
    IF Len(batch) = 0 THEN Ok(d)
    ELSE LET r == create_relations_body(d, batch)
         IN  [r EXCEPT !.db = transaction(d, r)]

----------------------------------------------------------------------------
(* delete_entity, delete_relation *)

\* variant: only the relations leaving the entity are deleted
delete_entity_body_source_only(d, name) ==
    Ok([entities |-> SelectSeq(d.entities, LAMBDA e : e.name # name),
        observations |-> clear_observations(d.observations, name),
        relations |-> SelectSeq(d.relations, LAMBDA r : ~(r.source = name))])

delete_entity_body(d, name) ==
    Ok([entities |-> SelectSeq(d.entities, LAMBDA e : e.name # name),
        observations |-> clear_observations(d.observations, name),
        relations |-> SelectSeq(d.relations,
                         LAMBDA r : ~(r.source = name \/ r.target = name))])

\* variant: the delete runs without looking the entity up first
delete_entity_unchecked(d, name) ==
    LET r == delete_entity_body(d, name)
    IN  [r EXCEPT !.db = transaction(d, r)]

delete_entity(d, name) ==
    IF ~entity_exists(d, name) THEN Fail(d, "entity_not_found")
    ELSE LET r == delete_entity_body(d, name)
         IN  [r EXCEPT !.db = transaction(d, r)]

\* variant: the relation type is left out of the WHERE clause
delete_relation_any_type(d, rel) ==
    LET kept == SelectSeq(d.relations,
                    LAMBDA r : ~(r.source = rel.from /\ r.target = rel.to))
        changes == Len(d.relations) - Len(kept)
    IN  IF changes = 0 THEN Fail(d, "relation_not_found")
        ELSE Ok([d EXCEPT !.relations = kept])

\* DELETE FROM relations WHERE source = ? AND target = ? AND relation_type = ?
delete_relation(d, rel) ==
    LET kept == SelectSeq(d.relations,
                    LAMBDA r : ~(/\ r.source = rel.from
                                 /\ r.target = rel.to
                                 /\ r.relation_type = rel.relationType))
        changes == Len(d.relations) - Len(kept)
    IN  IF changes = 0 THEN Fail(d, "relation_not_found")
        ELSE Ok([d EXCEPT !.relations = kept])

----------------------------------------------------------------------------
(* reads *)

Entity(d, row) ==
    [name |-> row.name, entityType |-> row.entity_type,
     observations |-> select_observations(d.observations, row.name)]

get_entity(d, name) ==
    IF ~entity_exists(d, name)
    THEN [ok |-> FALSE, err |-> "entity_not_found", entity |-> <<>>]
    ELSE LET i == CHOOSE i \in 1..Len(d.entities) : d.entities[i].name = name
         IN  [ok |-> TRUE, err |-> "none", entity |-> Entity(d, d.entities[i])]

\* variant: only the relations leaving the entities are selected
get_relations_from_entities(d, entities) ==
    IF Len(entities) = 0 THEN <<>>
    ELSE LET entity_names == {entities[i].name : i \in 1..Len(entities)}
             rows == SelectSeq(d.relations, LAMBDA r : r.source \in entity_names)
         IN  [i \in 1..Len(rows) |->
                Relation(rows[i].source, rows[i].target, rows[i].relation_type)]

\* SELECT ... FROM relations WHERE source IN (names) OR target IN (names)
get_relations_for_entities(d, entities) ==
    IF Len(entities) = 0 THEN <<>>
    ELSE LET entity_names == {entities[i].name : i \in 1..Len(entities)}
             rows == SelectSeq(d.relations,
                        LAMBDA r : r.source \in entity_names
                                   \/ r.target \in entity_names)
         IN  [i \in 1..Len(rows) |->
                Relation(rows[i].source, rows[i].target, rows[i].relation_type)]

\* variant: an array push instead of a Set
array_push(s, x) == Append(s, x)

\* Set.add: a name already in the set keeps its place
set_add(s, x) == IF x \in Range(s) THEN s ELSE Append(s, x)

RECURSIVE related_names(_, _, _)
related_names(relations, name, acc) ==
    IF relations = <<>> THEN acc
    ELSE LET rel == Head(relations)
             a1 == IF rel.from # name THEN set_add(acc, rel.from) ELSE acc
             a2 == IF rel.to # name THEN set_add(a1, rel.to) ELSE a1
         IN  related_names(Tail(relations), name, a2)

\* a neighbour that get_entity does not find is skipped
RECURSIVE fetch_related(_, _)
fetch_related(d, names) ==
    IF names = <<>> THEN <<>>
    ELSE LET g == get_entity(d, Head(names))
         IN  (IF g.ok THEN <<g.entity>> ELSE <<>>)
             \o fetch_related(d, Tail(names))

get_entity_with_relations(d, name) ==
    LET g == get_entity(d, name)
    IN  IF ~g.ok
        THEN [ok |-> FALSE, err |-> g.err, result |-> NoResult]
        ELSE LET relations == get_relations_for_entities(d, <<g.entity>>)
             IN  [ok |-> TRUE, err |-> "none",
                  result |-> [entities |-> <<g.entity>>,
                              relations |-> relations,
                              relatedEntities |->
                                  fetch_related(d, related_names(relations, name, <<>>))]]

----------------------------------------------------------------------------
(* ORDER BY ... DESC LIMIT ?                                               *)
(* Rows whose sort keys are equal come out in an order SQL leaves open;    *)
(* tie_asc says whether a query returns them in ascending or descending    *)
(* rowid order.                                                            *)

\* lexicographic comparison of two sort keys of the same length
RECURSIVE key_greater(_, _)
key_greater(a, b) ==
    IF a = <<>> THEN FALSE
    ELSE IF Head(a) # Head(b) THEN Head(a) > Head(b)
    ELSE key_greater(Tail(a), Tail(b))

remove_at(s, i) == SubSeq(s, 1, i - 1) \o SubSeq(s, i + 1, Len(s))

first_index(items, tie_asc) ==
    CHOOSE i \in 1..Len(items) :
        \A j \in 1..Len(items) :
            /\ ~key_greater(items[j].key, items[i].key)
            /\ (items[j].key = items[i].key) =>
                   (IF tie_asc THEN i <= j ELSE i >= j)

RECURSIVE order_by_desc(_, _)
order_by_desc(items, tie_asc) ==
    IF items = <<>> THEN <<>>
    ELSE LET i == first_index(items, tie_asc)
         IN  <<items[i]>> \o order_by_desc(remove_at(items, i), tie_asc)

sql_limit(rows, n) == SubSeq(rows, 1, IF n < Len(rows) THEN n ELSE Len(rows))

DefaultRecentLimit == 10

\* SELECT name, entity_type FROM entities ORDER BY created_at DESC LIMIT ?
get_recent_entities(d, limit, tie_asc) ==
    LET items == [i \in 1..Len(d.entities) |->
                     [key |-> <<d.entities[i].created_at>>, row |-> d.entities[i]]]
        results == sql_limit(order_by_desc(items, tie_asc), limit)
    IN  [i \in 1..Len(results) |-> Entity(d, results[i].row)]

read_graph(d, tie_asc) ==
    LET recent_entities == get_recent_entities(d, DefaultRecentLimit, tie_asc)
    IN  [ok |-> TRUE, err |-> "none",
         result |-> [entities |-> recent_entities,
                     relations |-> get_relations_for_entities(d, recent_entities),
                     relatedEntities |-> <<>>]]

----------------------------------------------------------------------------
(* search_entities, search_nodes *)

\* variant: only spaces and underscores become wildcards
separators_without_hyphen == Whitespace \cup {"_"}

\* the character class [\s_-]
Separators == Whitespace \cup {"_", "-"}

Upper == <<"A", "B", "U", "P", "W", "X">>
LowerOf == <<"a", "b", "u", "p", "w", "x">>

\* variant: a case-sensitive comparison
lower_binary(c) == c

\* COLLATE NOCASE folds the ASCII upper-case letters
Lower(c) ==
    IF \E i \in 1..Len(Upper) : Upper[i] = c
    THEN LowerOf[CHOOSE i \in 1..Len(Upper) : Upper[i] = c]
    ELSE c

\* query.replace(/[\s_-]+/g, '%')
RECURSIVE normalize_query(_)
normalize_query(q) ==
    IF q = <<>> THEN <<>>
    ELSE IF Head(q) \in Separators
         THEN IF Len(q) > 1 /\ q[2] \in Separators
              THEN normalize_query(Tail(q))
              ELSE <<"%">> \o normalize_query(Tail(q))
         ELSE <<Head(q)>> \o normalize_query(Tail(q))

\* text LIKE pattern COLLATE NOCASE: % matches any run, _ any one character
RECURSIVE like(_, _)
like(text, pattern) ==
    IF pattern = <<>> THEN text = <<>>
    ELSE IF Head(pattern) = "%"
         THEN like(text, Tail(pattern))
              \/ (text # <<>> /\ like(Tail(text), pattern))
         ELSE /\ text # <<>>
              /\ (Head(pattern) = "_" \/ Lower(Head(pattern)) = Lower(Head(text)))
              /\ like(Tail(text), Tail(pattern))

\* FROM entities e LEFT JOIN observations o ON e.name = o.entity_name
RECURSIVE left_join(_, _)
left_join(entities, observations) ==
    IF entities = <<>> THEN <<>>
    ELSE LET e == Head(entities)
             contents == select_observations(observations, e.name)
             joined == IF contents = <<>>
                       THEN <<[e |-> e, has_o |-> FALSE, content |-> <<>>]>>
                       ELSE [i \in 1..Len(contents) |->
                               [e |-> e, has_o |-> TRUE, content |-> contents[i]]]
         IN  joined \o left_join(Tail(entities), observations)

\* variant: every match scores the same
relevance_score_flat(e, pattern) == 1

\* CASE WHEN e.name LIKE ? THEN 3 WHEN e.entity_type LIKE ? THEN 2 ELSE 1 END
relevance_score(e, pattern) ==
    IF like(e.name, pattern) THEN 3
    ELSE IF like(e.entity_type, pattern) THEN 2
    ELSE 1

\* variant: SELECT without DISTINCT
select_all(rows, seen) == rows

\* SELECT DISTINCT: a row equal to an earlier one is dropped
RECURSIVE distinct(_, _)
distinct(rows, seen) ==
    IF rows = <<>> THEN <<>>
    ELSE IF Head(rows) \in seen THEN distinct(Tail(rows), seen)
    ELSE <<Head(rows)>> \o distinct(Tail(rows), seen \cup {Head(rows)})

MinLimit == 1
MaxLimit == 50
DefaultSearchLimit == 10

\* variant: the limit is passed to the query as given
effective_limit_unclamped(limit) == limit

\* Math.min(Math.max(1, limit), 50)
effective_limit(limit) ==
    LET lo == IF limit > MinLimit THEN limit ELSE MinLimit
    IN  IF lo < MaxLimit THEN lo ELSE MaxLimit

search_entities(d, query, limit, tie_asc) ==
    LET search_pattern == <<"%">> \o normalize_query(query) \o <<"%">>
        joined == left_join(d.entities, d.observations)
        matched == SelectSeq(joined,
                      LAMBDA r : \/ like(r.e.name, search_pattern)
                                 \/ like(r.e.entity_type, search_pattern)
                                 \/ (r.has_o /\ like(r.content, search_pattern)))
        selected == [i \in 1..Len(matched) |->
                       [key |-> <<relevance_score(matched[i].e, search_pattern),
                                  matched[i].e.created_at>>,
                        row |-> matched[i].e]]
        results == sql_limit(order_by_desc(distinct(selected, {}), tie_asc),
                             effective_limit(limit))
    IN  [i \in 1..Len(results) |-> Entity(d, results[i].row)]

\* limit: <<>> when the caller leaves it out, <<n>> otherwise
search_nodes(d, query, limit, tie_asc) ==
    IF IsBlank(query)
    THEN [ok |-> FALSE, err |-> "empty_query", result |-> NoResult]
    ELSE LET entities == search_entities(d, query,
                             IF limit = <<>> THEN DefaultSearchLimit ELSE limit[1],
                             tie_asc)
         IN  [ok |-> TRUE, err |-> "none",
              result |-> [entities |-> entities,
                          relations |-> get_relations_for_entities(d, entities),
                          relatedEntities |-> <<>>]]

----------------------------------------------------------------------------
(* The vector-enabled store: vector codec *)
(* A component of a vector handed in by a caller is written as a string:   *)
(* "0", "1", "2" are numbers a float32 holds exactly, "NaN" and "Infinity" *)
(* are numbers that are not finite, "x" is a value that is not a number.   *)

VECTOR_DIMENSIONS == 1536

\* typeof n !== 'number' || isNaN(n) || !isFinite(n) ? 0.0 : n
sanitize(n) == IF n \in {"0", "1", "2"} THEN n ELSE "0"

(* An array of components is written as its runs: <<[n |-> 2, v |-> "0"]>> *)
(* is the array [0, 0]. Adjacent runs never hold the same value.           *)

Run(n, v) == [n |-> n, v |-> v]

RECURSIVE merge_runs(_)
merge_runs(runs) ==
    IF Len(runs) < 2 THEN runs
    ELSE IF runs[1].v = runs[2].v
         THEN merge_runs(<<Run(runs[1].n + runs[2].n, runs[1].v)>>
                         \o SubSeq(runs, 3, Len(runs)))
         ELSE <<runs[1]>> \o merge_runs(Tail(runs))

\* numbers.length
RECURSIVE array_length(_)
array_length(runs) ==
    IF runs = <<>> THEN 0 ELSE Head(runs).n + array_length(Tail(runs))

\* Buffer.from(new Float32Array(sanitized_numbers).buffer): every component
\* sanitized and then held as a float, as runs
Float32Buffer(numbers) ==
    merge_runs([i \in 1..Len(numbers) |->
        LET n == sanitize(numbers[i].v)
        IN  Run(numbers[i].n, IF n = "1" THEN 1 ELSE IF n = "2" THEN 2 ELSE 0)])

\* variant: any length is accepted
vector_to_buffer_any_length(numbers) ==
    [ok |-> TRUE, err |-> "none", buffer |-> Float32Buffer(numbers)]

\* vector_to_buffer(numbers) for an array: the length is checked, then the
\* components are sanitized and packed
vector_to_buffer(numbers) ==
    IF array_length(numbers) # VECTOR_DIMENSIONS
    THEN [ok |-> FALSE, err |-> "dimension_mismatch", buffer |-> <<>>]
    ELSE [ok |-> TRUE, err |-> "none", buffer |-> Float32Buffer(numbers)]

\* buffer_to_vector(buffer): Array.from(new Float32Array(...))
buffer_to_vector(buffer) ==
    merge_runs([i \in 1..Len(buffer) |->
        Run(buffer[i].n, IF buffer[i].v = 1 THEN "1"
                         ELSE IF buffer[i].v = 2 THEN "2" ELSE "0")])

\* the sum of a[i] * b[i] over the positions both buffers have
RECURSIVE dot(_, _)
dot(a, b) ==
    IF a = <<>> \/ b = <<>> THEN 0
    ELSE LET k == IF Head(a).n < Head(b).n THEN Head(a).n ELSE Head(b).n
             rest(runs) == IF Head(runs).n = k THEN Tail(runs)
                           ELSE <<Run(Head(runs).n - k, Head(runs).v)>> \o Tail(runs)
         IN  k * Head(a).v * Head(b).v + dot(rest(a), rest(b))

\* vec_distance_cosine(a, b) = 1 - dot(a, b) / (|a| |b|) is not a number when
\* a or b is the zero vector, and SQLite stores no number as NULL
distance_is_null(a, b) == dot(a, a) = 0 \/ dot(b, b) = 0

\* vec_distance_cosine(a, q) < vec_distance_cosine(b, q), both being numbers
distance_less(a, b, q) ==
    LET da == dot(a, q)
        db_ == dot(b, q)
        na == dot(a, a)
        nb == dot(b, b)
    IN  IF da >= 0 /\ db_ >= 0 THEN da * da * nb > db_ * db_ * na
        ELSE IF da >= 0 THEN TRUE
        ELSE IF db_ >= 0 THEN FALSE
        ELSE da * da * nb < db_ * db_ * na

----------------------------------------------------------------------------
(* The vector-enabled store: tables and operations *)
(* entities is a rowid table: a new row takes the largest rowid in use     *)
(* plus one. entities_vec is a vec0 table: a row inserted without a rowid  *)
(* takes the next value of the table's own AUTOINCREMENT sequence.         *)

EmptyVecDb ==
    [entities |-> <<>>, observations |-> <<>>, relations |-> <<>>,
     entities_vec |-> <<>>, vec_sequence |-> 0]

RECURSIVE max_rowid(_)
max_rowid(rows) ==
    IF rows = <<>> THEN 0
    ELSE LET m == max_rowid(Tail(rows))
         IN  IF Head(rows).rowid > m THEN Head(rows).rowid ELSE m

\* SELECT rowid FROM entities WHERE name = ?
rowid_of(d, name) ==
    d.entities[CHOOSE i \in 1..Len(d.entities) : d.entities[i].name = name].rowid

vec_upsert_entity_row(entities, e, t) ==
    IF \E i \in 1..Len(entities) : entities[i].name = e.name
    THEN [i \in 1..Len(entities) |->
            IF entities[i].name = e.name
            THEN [entities[i] EXCEPT !.entity_type = e.entityType]
            ELSE entities[i]]
    ELSE Append(entities,
                [rowid |-> max_rowid(entities) + 1, name |-> e.name,
                 entity_type |-> e.entityType, created_at |-> t])

\* INSERT INTO entities_vec (embedding) VALUES (?)
insert_vec(d, name, buffer) ==
    [d EXCEPT !.entities_vec =
                  Append(d.entities_vec,
                         [rowid |-> d.vec_sequence + 1, embedding |-> buffer]),
              !.vec_sequence = d.vec_sequence + 1]

\* if (entity.embedding) { ... }: embedding is <<>> when the item has none.
\* SELECT rowid FROM entities_vec WHERE rowid = (SELECT rowid FROM entities
\* WHERE name = ?) finds the row to UPDATE; without one the vector is inserted
store_embedding(d, e) ==
    IF e.embedding = <<>> THEN Ok(d)
    ELSE LET v == vector_to_buffer(e.embedding[1])
         IN  IF ~v.ok THEN Fail(d, v.err)
             ELSE IF \E k \in 1..Len(d.entities_vec) :
                         d.entities_vec[k].rowid = rowid_of(d, e.name)
             THEN Ok([d EXCEPT !.entities_vec =
                         [k \in 1..Len(d.entities_vec) |->
                             IF d.entities_vec[k].rowid = rowid_of(d, e.name)
                             THEN [d.entities_vec[k] EXCEPT !.embedding = v.buffer]
                             ELSE d.entities_vec[k]]])
             ELSE Ok(insert_vec(d, e.name, v.buffer))

\* variant: an item that carries an embedding adds its observations to the
\* ones already stored for its name
vec_upsert_entity_appending(d, e, t) ==
    LET written == [d EXCEPT !.entities = vec_upsert_entity_row(d.entities, e, t)]
        r == store_embedding(written, e)
    IN  IF ~r.ok THEN r
        ELSE Ok([r.db EXCEPT !.observations =
                    insert_observations(
                        IF e.embedding = <<>>
                        THEN clear_observations(r.db.observations, e.name)
                        ELSE r.db.observations,
                        e.name, e.observations)])

vec_upsert_entity(d, e, t) ==
    LET written == [d EXCEPT !.entities = vec_upsert_entity_row(d.entities, e, t)]
        r == store_embedding(written, e)
    IN  IF ~r.ok THEN r
        ELSE Ok([r.db EXCEPT !.observations =
                    insert_observations(clear_observations(r.db.observations, e.name),
                                        e.name, e.observations)])

RECURSIVE vec_create_entities_body(_, _, _)
vec_create_entities_body(d, batch, t) ==
    IF batch = <<>> THEN Ok(d)
    ELSE LET v == validate_entity(Head(batch))
         IN  IF v # "none" THEN Fail(d, v)
             ELSE LET r == vec_upsert_entity(d, Head(batch), t)
                  IN  IF ~r.ok THEN r
                      ELSE vec_create_entities_body(r.db, Tail(batch), t)

vec_create_entities(d, batch, t) ==
    LET r == vec_create_entities_body(d, batch, t)
    IN  [r EXCEPT !.db = transaction(d, r)]

\* variant: DELETE FROM entities_vec, without the WHERE clause
vec_delete_entity_all_vectors(d, name) ==
    IF ~entity_exists(d, name) THEN Fail(d, "entity_not_found")
    ELSE LET r == Ok([d EXCEPT
                 !.observations = clear_observations(d.observations, name),
                 !.relations = SelectSeq(d.relations,
                                  LAMBDA r : ~(r.source = name \/ r.target = name)),
                 !.entities_vec = <<>>,
                 !.entities = SelectSeq(d.entities, LAMBDA e : e.name # name)])
         IN  [r EXCEPT !.db = transaction(d, r)]

\* the transaction deletes the observations, the relations, then
\* DELETE FROM entities_vec WHERE rowid = (SELECT rowid FROM entities WHERE name = ?)
\* and last the entity
vec_delete_entity(d, name) ==
    IF ~entity_exists(d, name) THEN Fail(d, "entity_not_found")
    ELSE LET r == Ok([d EXCEPT
                 !.observations = clear_observations(d.observations, name),
                 !.relations = SelectSeq(d.relations,
                                  LAMBDA r : ~(r.source = name \/ r.target = name)),
                 !.entities_vec = SelectSeq(d.entities_vec,
                                      LAMBDA v : v.rowid # rowid_of(d, name)),
                 !.entities = SelectSeq(d.entities, LAMBDA e : e.name # name)])
         IN  [r EXCEPT !.db = transaction(d, r)]

\* the embedding comes from SELECT v.embedding FROM entities_vec v
\* INNER JOIN entities e ON v.rowid = e.rowid WHERE e.name = ?
VecEntity(d, row) ==
    LET joined == SelectSeq(d.entities_vec, LAMBDA v : v.rowid = row.rowid)
    IN  [name |-> row.name, entityType |-> row.entity_type,
         observations |-> select_observations(d.observations, row.name),
         embedding |-> IF joined = <<>> THEN <<>>
                       ELSE <<buffer_to_vector(joined[1].embedding)>>]

vec_get_entity(d, name) ==
    IF ~entity_exists(d, name)
    THEN [ok |-> FALSE, err |-> "entity_not_found", entity |-> <<>>]
    ELSE LET i == CHOOSE i \in 1..Len(d.entities) : d.entities[i].name = name
         IN  [ok |-> TRUE, err |-> "none", entity |-> VecEntity(d, d.entities[i])]

\* FROM entities e INNER JOIN entities_vec v ON v.rowid = e.rowid
\* WHERE v.embedding IS NOT NULL
RECURSIVE inner_join_vec(_, _)
inner_join_vec(entities, vecs) ==
    IF entities = <<>> THEN <<>>
    ELSE LET e == Head(entities)
             matching == SelectSeq(vecs, LAMBDA v : v.rowid = e.rowid)
         IN  [k \in 1..Len(matching) |-> [e |-> e, embedding |-> matching[k].embedding]]
             \o inner_join_vec(Tail(entities), vecs)

\* ORDER BY distance ASC: a NULL distance sorts before every number, and
\* rows at the same distance come in one of the two scan orders
RECURSIVE order_by_distance(_, _, _)
order_by_distance(rows, q, tie_asc) ==
    IF rows = <<>> THEN <<>>
    ELSE LET before(a, b) ==
                 IF distance_is_null(a, q) THEN ~distance_is_null(b, q)
                 ELSE IF distance_is_null(b, q) THEN FALSE
                 ELSE distance_less(a, b, q)
             i == CHOOSE i \in 1..Len(rows) :
                     \A j \in 1..Len(rows) :
                         /\ ~before(rows[j].embedding, rows[i].embedding)
                         /\ ~before(rows[i].embedding, rows[j].embedding) =>
                                (IF tie_asc THEN i <= j ELSE i >= j)
         IN  <<rows[i]>> \o order_by_distance(remove_at(rows, i), q, tie_asc)

DefaultSimilarLimit == 5

\* the distance as the three sums it is computed from
Distance(a, q) ==
    IF distance_is_null(a, q) THEN <<>> ELSE <<dot(a, q), dot(a, a), dot(q, q)>>

\* variant: the query is run before the query vector is checked
search_similar_unchecked(d, embedding, limit, tie_asc) ==
    LET v == vector_to_buffer_any_length(embedding)
        rows == sql_limit(order_by_distance(inner_join_vec(d.entities, d.entities_vec),
                                            v.buffer, tie_asc),
                          IF limit = <<>> THEN DefaultSimilarLimit ELSE limit[1])
    IN  [ok |-> TRUE, err |-> "none", reads |-> 1 + Len(rows),
         results |-> [i \in 1..Len(rows) |->
             [entity |-> [name |-> rows[i].e.name,
                          entityType |-> rows[i].e.entity_type,
                          observations |->
                              select_observations(d.observations, rows[i].e.name),
                          embedding |-> <<buffer_to_vector(rows[i].embedding)>>],
              distance |-> Distance(rows[i].embedding, v.buffer)]]]

\* reads counts the SELECT statements run: the join and one per result row
search_similar(d, embedding, limit, tie_asc) ==
    LET v == vector_to_buffer(embedding)
    IN  IF ~v.ok THEN [ok |-> FALSE, err |-> v.err, reads |-> 0, results |-> <<>>]
        ELSE LET rows == sql_limit(
                            order_by_distance(
                                inner_join_vec(d.entities, d.entities_vec),
                                v.buffer, tie_asc),
                            IF limit = <<>> THEN DefaultSimilarLimit ELSE limit[1])
             IN  [ok |-> TRUE, err |-> "none", reads |-> 1 + Len(rows),
                  results |-> [i \in 1..Len(rows) |->
                      [entity |-> [name |-> rows[i].e.name,
                                   entityType |-> rows[i].e.entity_type,
                                   observations |->
                                       select_observations(d.observations,
                                                           rows[i].e.name),
                                   embedding |->
                                       <<buffer_to_vector(rows[i].embedding)>>],
                       distance |-> Distance(rows[i].embedding, v.buffer)]]]

\* SELECT DISTINCT e.name, e.entity_type FROM entities e LEFT JOIN observations o
\* ... WHERE e.name LIKE ? OR e.entity_type LIKE ? OR o.content LIKE ?
\* with no ORDER BY: the rows come in one of the two scan orders
vec_search_entities(d, query, scan_asc) ==
    LET pattern == <<"%">> \o query \o <<"%">>
        joined == left_join(d.entities, d.observations)
        matched == SelectSeq(joined,
                      LAMBDA r : \/ like(r.e.name, pattern)
                                 \/ like(r.e.entity_type, pattern)
                                 \/ (r.has_o /\ like(r.content, pattern)))
        rows == distinct([i \in 1..Len(matched) |-> matched[i].e], {})
    IN  [i \in 1..Len(rows) |->
            VecEntity(d, rows[IF scan_asc THEN i ELSE Len(rows) + 1 - i])]

VecNoResult == [entities |-> <<>>, relations |-> <<>>, reads |-> 0]

\* variant: the components of a vector query are not inspected
every_number_unchecked(numbers) == TRUE

\* query.every((n) => typeof n === 'number')
every_number(numbers) ==
    \A i \in 1..Len(numbers) : numbers[i].v \in {"0", "1", "2", "NaN", "Infinity"}

\* query is [array |-> TRUE, value |-> numbers] or [array |-> FALSE, value |-> text]
vec_search_nodes(d, query, tie_asc) ==
    LET failed(err) == [ok |-> FALSE, err |-> err, result |-> VecNoResult]
        \* the relations are read with one more statement when entities came back
        found(entities, reads) ==
            [ok |-> TRUE, err |-> "none",
             result |-> [entities |-> entities,
                         relations |-> get_relations_for_entities(d, entities),
                         reads |-> reads + (IF Len(entities) = 0 THEN 0 ELSE 1)]]
        similar(r) ==
            IF ~r.ok THEN failed(r.err)
            ELSE found([i \in 1..Len(r.results) |-> r.results[i].entity], r.reads)
        matching(entities) == found(entities, 1 + 2 * Len(entities))
    IN  IF query.array
        THEN IF ~every_number(query.value) THEN failed("not_numbers")
             ELSE similar(search_similar(d, query.value, <<>>, tie_asc))
        ELSE IF IsBlank(query.value) THEN failed("empty_query")
             ELSE matching(vec_search_entities(d, query.value, tie_asc))

----------------------------------------------------------------------------
(* Input pools of the vector-enabled store *)

MaxRowid == 3

\* the array with c at position k, ones before it and zeros after it
Spike(len, k, c) ==
    merge_runs(SelectSeq(<<Run(k - 1, "1"), Run(1, c), Run(len - k, "0")>>,
                         LAMBDA r : r.n > 0))

vE1 == Spike(VECTOR_DIMENSIONS, 1, "1")
vE2 == Spike(VECTOR_DIMENSIONS, 2, "2")
vNaN == Spike(VECTOR_DIMENSIONS, 2, "NaN")
vText == Spike(VECTOR_DIMENSIONS, 2, "x")
vShort == Spike(VECTOR_DIMENSIONS - 1, 1, "1")
vLong == Spike(VECTOR_DIMENSIONS + 1, 1, "1")

VecEntityInput(n, t, o, v) ==
    [name |-> n, entityType |-> t, observations |-> o, embedding |-> v]

VecEntityInputs ==
    { VecEntityInput(nA, tT, <<oX>>, <<>>),
      VecEntityInput(nA, tU, <<oY>>, <<vE1>>),
      VecEntityInput(nB, tT, <<oX>>, <<>>),
      VecEntityInput(nB, tT, <<oX>>, <<vE2>>),
      VecEntityInput(nB, tT, <<oX>>, <<vText>>),
      VecEntityInput(nA, tT, <<oX>>, <<vShort>>),
      VecEntityInput(nBlank, tT, <<oX>>, <<vLong>>) }

QueryVectors ==
    { vE1, vE2, vNaN, Spike(VECTOR_DIMENSIONS, 2, "Infinity"), vText, <<>>,
      vShort, vLong, Spike(VECTOR_DIMENSIONS - 1, 2, "x") }

VecQueries ==
    {[array |-> TRUE, value |-> v] : v \in QueryVectors}
    \cup {[array |-> FALSE, value |-> q] : q \in {<<"A">>, <<" ">>}}

----------------------------------------------------------------------------
(* Operations *)
(* Requests are served one at a time: an operation runs to completion on   *)
(* the single connection, its outcome is handed to the caller, and only    *)
(* then is the next request taken.                                         *)

Idle == [op |-> "idle", arg |-> <<>>, ok |-> TRUE, err |-> "none",
         result |-> NoResult, before |-> EmptyDb]

\* what the caller gets back, with the tables as the call found them
Outcome(op, arg, r, res) ==
    [op |-> op, arg |-> arg, ok |-> r.ok, err |-> r.err, result |-> res,
     before |-> db]

CreateEntities(batch) ==
    LET r == create_entities(db, batch, now)
    IN  /\ last = Idle
        /\ db' = r.db
        /\ last' = Outcome("create_entities", batch, r, NoResult)
        /\ UNCHANGED <<now, instance, connections, twin, supplied, pending, tx>>

CreateRelations(batch) ==
    LET r == create_relations(db, batch)
    IN  /\ last = Idle
        /\ db' = r.db
        /\ last' = Outcome("create_relations", batch, r, NoResult)
        /\ UNCHANGED <<now, instance, connections, twin, supplied, pending, tx>>

DeleteEntity(name) ==
    LET r == delete_entity(db, name)
    IN  /\ last = Idle
        /\ db' = r.db
        /\ last' = Outcome("delete_entity", name, r, NoResult)
        /\ UNCHANGED <<now, instance, connections, twin, supplied, pending, tx>>

DeleteRelation(rel) ==
    LET r == delete_relation(db, rel)
    IN  /\ last = Idle
        /\ db' = r.db
        /\ last' = Outcome("delete_relation", rel, r, NoResult)
        /\ UNCHANGED <<now, instance, connections, twin, supplied, pending, tx>>

\* variant: a lookup of a name that is not stored stores it
GetOrCreateEntity(name) ==
    LET g == get_entity(db, name)
    IN  /\ last = Idle
        /\ db' = IF g.ok THEN db
                  ELSE [db EXCEPT !.entities =
                          Append(@, [name |-> name, entity_type |-> tT,
                                     created_at |-> now])]
        /\ last' = Outcome("get_entity", name, g,
                           [NoResult EXCEPT !.entities =
                               IF g.ok THEN <<g.entity>> ELSE <<>>])
        /\ UNCHANGED <<now, instance, connections, twin, supplied, pending, tx>>

GetEntity(name) ==
    LET g == get_entity(db, name)
    IN  /\ last = Idle
        /\ last' = Outcome("get_entity", name, g,
                           [NoResult EXCEPT !.entities =
                               IF g.ok THEN <<g.entity>> ELSE <<>>])
        /\ UNCHANGED <<db, now, instance, connections, twin, supplied, pending, tx>>

GetEntityWithRelations(name) ==
    LET g == get_entity_with_relations(db, name)
    IN  /\ last = Idle
        /\ last' = Outcome("get_entity_with_relations", name, g, g.result)
        /\ UNCHANGED <<db, now, instance, connections, twin, supplied, pending, tx>>

ReadGraph(tie_asc) ==
    LET g == read_graph(db, tie_asc)
    IN  /\ last = Idle
        /\ last' = Outcome("read_graph", <<tie_asc>>, g, g.result)
        /\ UNCHANGED <<db, now, instance, connections, twin, supplied, pending, tx>>

SearchNodes(query, limit, tie_asc) ==
    LET g == search_nodes(db, query, limit, tie_asc)
    IN  /\ last = Idle
        /\ last' = Outcome("search_nodes", <<query, limit, tie_asc>>, g, g.result)
        /\ UNCHANGED <<db, now, instance, connections, twin, supplied, pending, tx>>

\* the outcome reaches the caller
Return ==
    /\ last # Idle
    /\ last' = Idle
    /\ UNCHANGED <<db, now, instance, connections, twin, supplied, pending, tx>>

\* the wall clock behind CURRENT_TIMESTAMP moves on by a second
Tick ==
    /\ last = Idle
    /\ now < MaxClock
    /\ now' = now + 1
    /\ UNCHANGED <<db, last, instance, connections, twin, supplied, pending, tx>>

\* new Database(config.dbPath), opened by the constructor
Connection(dbPath) == [dbPath |-> dbPath, initialized |-> 0, open |-> TRUE]

\* the manager holds its connection; connections are numbered as opened
Manager(k) == [db |-> k]

DefaultPath == "./sqlite-memory.db"

Configs == {[dbPath |-> ""], [dbPath |-> DefaultPath], [dbPath |-> "other.db"]}

\* new DatabaseManager(config): throws without a path, else opens the file
constructor(conns, config) ==
    IF config.dbPath = ""
    THEN [ok |-> FALSE, err |-> "path_required", conns |-> conns, manager |-> <<>>]
    ELSE [ok |-> TRUE, err |-> "none",
          conns |-> Append(conns, Connection(config.dbPath)),
          manager |-> <<Manager(Len(conns) + 1)>>]

\* initialize(): CREATE TABLE / INDEX IF NOT EXISTS on the manager's connection
initialize(conns, manager) ==
    [conns EXCEPT ![manager.db].initialized = @ + 1]

\* variant: a manager is constructed on every call
get_instance_unguarded(inst, conns, config) ==
    LET c == constructor(conns, config)
    IN  IF ~c.ok THEN [c EXCEPT !.manager = inst]
        ELSE [c EXCEPT !.conns = initialize(c.conns, c.manager[1])]

\* if (!DatabaseManager.instance) { instance = new ...; await instance.initialize() }
\* return DatabaseManager.instance
get_instance(inst, conns, config) ==
    IF inst = <<>>
    THEN LET c == constructor(conns, config)
         IN  IF ~c.ok THEN c
             ELSE [c EXCEPT !.conns = initialize(c.conns, c.manager[1])]
    ELSE [ok |-> TRUE, err |-> "none", conns |-> conns, manager |-> inst]

GetInstance(config) ==
    LET r == get_instance(instance, connections, config)
    IN  /\ last = Idle
        /\ instance' = r.manager
        /\ connections' = r.conns
        /\ last' = Outcome("get_instance", config, r, r.manager)
        /\ UNCHANGED <<db, now, twin, supplied, pending, tx>>

(* supplied is a history variable: for every stored entity that was given  *)
(* an embedding since it was created, the embedding it was given last.     *)
RECURSIVE record_supplied(_, _, _)
record_supplied(sup, known, batch) ==
    IF batch = <<>> THEN sup
    ELSE LET e == Head(batch)
             kept == IF e.name \in known /\ e.embedding = <<>>
                     THEN sup
                     ELSE {s \in sup : s.name # e.name}
             given == IF e.embedding = <<>> THEN {}
                      ELSE {[name |-> e.name, embedding |-> e.embedding[1]]}
         IN  record_supplied(kept \cup given, known \cup {e.name}, Tail(batch))

\* the rowids handed out so far stay within the bound
RowidsLeft(d, n) ==
    /\ max_rowid(d.entities) + n <= MaxRowid
    /\ d.vec_sequence + n <= MaxRowid

VecCreateEntities(batch) ==
    LET r == vec_create_entities(db, batch, now)
    IN  /\ last = Idle
        /\ RowidsLeft(db, Len(batch))
        /\ db' = r.db
        /\ last' = Outcome("create_entities", batch, r, VecNoResult)
        /\ supplied' = IF r.ok THEN record_supplied(supplied,
                                {db.entities[i].name : i \in 1..Len(db.entities)},
                                batch)
                       ELSE supplied
        /\ UNCHANGED <<now, instance, connections, twin, pending, tx>>

VecDeleteEntity(name) ==
    LET r == vec_delete_entity(db, name)
    IN  /\ last = Idle
        /\ db' = r.db
        /\ last' = Outcome("delete_entity", name, r, VecNoResult)
        /\ supplied' = IF r.ok THEN {s \in supplied : s.name # name} ELSE supplied
        /\ UNCHANGED <<now, instance, connections, twin, pending, tx>>

VecGetEntity(name) ==
    LET g == vec_get_entity(db, name)
    IN  /\ last = Idle
        /\ last' = Outcome("get_entity", name, g,
                           [VecNoResult EXCEPT !.entities =
                               IF g.ok THEN <<g.entity>> ELSE <<>>])
        /\ UNCHANGED <<db, now, instance, connections, twin, supplied, pending, tx>>

SearchSimilar(embedding, limit, tie_asc) ==
    LET g == search_similar(db, embedding, limit, tie_asc)
    IN  /\ last = Idle
        /\ last' = Outcome("search_similar", <<embedding, limit, tie_asc>>, g,
                           [entities |-> [i \in 1..Len(g.results) |->
                                             g.results[i].entity],
                            relations |-> <<>>, reads |-> g.reads])
        /\ UNCHANGED <<db, now, instance, connections, twin, supplied, pending, tx>>

VecSearchNodes(query, tie_asc) ==
    LET g == vec_search_nodes(db, query, tie_asc)
    IN  /\ last = Idle
        /\ last' = Outcome("search_nodes", <<query, tie_asc>>, g, g.result)
        /\ UNCHANGED <<db, now, instance, connections, twin, supplied, pending, tx>>

\* the server after main() has obtained its manager
Init ==
    /\ db = EmptyDb
    /\ now = 0
    /\ last = Idle
    /\ instance = <<Manager(1)>>
    /\ connections = <<[Connection(DefaultPath) EXCEPT !.initialized = 1]>>
    /\ twin = EmptyDb
    /\ supplied = {}
    /\ pending = <<>>
    /\ tx = <<>>

Next ==
    \/ \E batch \in EntityBatches : CreateEntities(batch)
    \/ \E batch \in RelationBatches : CreateRelations(batch)
    \/ \E name \in Names : DeleteEntity(name)
    \/ \E rel \in RelationInputs : DeleteRelation(rel)
    \/ \E name \in Names : GetEntity(name)
    \/ \E name \in Names : GetEntityWithRelations(name)
    \/ \E tie_asc \in BOOLEAN : ReadGraph(tie_asc)
    \/ \E query \in Queries, limit \in Limits, tie_asc \in BOOLEAN :
           SearchNodes(query, limit, tie_asc)
    \/ Return
    \/ Tick

Spec == Init /\ [][Next]_vars

\* the process before its first get_instance call
InitProcess ==
    /\ db = EmptyDb
    /\ now = 0
    /\ last = Idle
    /\ instance = <<>>
    /\ connections = <<>>
    /\ twin = EmptyDb
    /\ supplied = {}
    /\ pending = <<>>
    /\ tx = <<>>

\* the store is used through the manager get_instance returned
NextInstance ==
    \/ \E config \in Configs : GetInstance(config)
    \/ instance # <<>> /\ \E batch \in EntityBatches : CreateEntities(batch)
    \/ instance # <<>> /\ \E name \in Names : DeleteEntity(name)
    \/ instance # <<>> /\ \E name \in Names : GetEntity(name)
    \/ Return

SpecInstance == InitProcess /\ [][NextInstance]_vars

\* the vector-enabled server after main() has obtained its manager
InitVector ==
    /\ db = EmptyVecDb
    /\ now = 0
    /\ last = Idle
    /\ instance = <<Manager(1)>>
    /\ connections = <<[Connection(DefaultPath) EXCEPT !.initialized = 1]>>
    /\ twin = EmptyVecDb
    /\ supplied = {}
    /\ pending = <<>>
    /\ tx = <<>>

NextVector ==
    \/ \E batch \in SeqsUpTo(VecEntityInputs, MaxEntityBatch) : VecCreateEntities(batch)
    \/ \E name \in Names : VecDeleteEntity(name)
    \/ \E name \in Names : VecGetEntity(name)
    \/ \E embedding \in QueryVectors, limit \in {<<>>, <<1>>}, tie_asc \in BOOLEAN :
           SearchSimilar(embedding, limit, tie_asc)
    \/ \E query \in VecQueries, tie_asc \in BOOLEAN : VecSearchNodes(query, tie_asc)
    \/ Return

SpecVector == InitVector /\ [][NextVector]_vars

(* Two runs of the vector-enabled server that receive the same calls: db   *)
(* is given the embeddings of the items, twin is given the same items      *)
(* without them.                                                           *)
without_embedding(e) == [e EXCEPT !.embedding = <<>>]

PairEntityInputs ==
    { VecEntityInput(nA, tT, <<oX>>, <<>>),
      VecEntityInput(nA, tU, <<oY>>, <<vE1>>),
      VecEntityInput(nB, tT, <<oX>>, <<vE2>>),
      VecEntityInput(nBlank, tT, <<oX>>, <<>>) }

PairOutcome(op, arg, r, rt) ==
    [Outcome(op, arg, r, VecNoResult) EXCEPT !.result = [twin_ok |-> rt.ok]]

PairCreateEntities(batch) ==
    LET r == vec_create_entities(db, batch, now)
        rt == vec_create_entities(twin,
                  [i \in 1..Len(batch) |-> without_embedding(batch[i])], now)
    IN  /\ last = Idle
        /\ RowidsLeft(db, Len(batch))
        /\ RowidsLeft(twin, Len(batch))
        /\ db' = r.db
        /\ twin' = rt.db
        /\ last' = PairOutcome("create_entities", batch, r, rt)
        /\ supplied' = IF r.ok THEN record_supplied(supplied,
                                {db.entities[i].name : i \in 1..Len(db.entities)},
                                batch)
                       ELSE supplied
        /\ UNCHANGED <<now, instance, connections, pending, tx>>

PairCreateRelations(batch) ==
    LET r == create_relations(db, batch)
        rt == create_relations(twin, batch)
    IN  /\ last = Idle
        /\ db' = r.db
        /\ twin' = rt.db
        /\ last' = PairOutcome("create_relations", batch, r, rt)
        /\ UNCHANGED <<now, instance, connections, supplied, pending, tx>>

PairDeleteEntity(name) ==
    LET r == vec_delete_entity(db, name)
        rt == vec_delete_entity(twin, name)
    IN  /\ last = Idle
        /\ db' = r.db
        /\ twin' = rt.db
        /\ last' = PairOutcome("delete_entity", name, r, rt)
        /\ supplied' = IF r.ok THEN {s \in supplied : s.name # name} ELSE supplied
        /\ UNCHANGED <<now, instance, connections, pending, tx>>

PairDeleteRelation(rel) ==
    LET r == delete_relation(db, rel)
        rt == delete_relation(twin, rel)
    IN  /\ last = Idle
        /\ db' = r.db
        /\ twin' = rt.db
        /\ last' = PairOutcome("delete_relation", rel, r, rt)
        /\ UNCHANGED <<now, instance, connections, supplied, pending, tx>>

NextPair ==
    \/ \E batch \in SeqsUpTo(PairEntityInputs, MaxEntityBatch) : PairCreateEntities(batch)
    \/ \E batch \in RelationBatches : PairCreateRelations(batch)
    \/ \E name \in Names : PairDeleteEntity(name)
    \/ \E rel \in RelationInputs : PairDeleteRelation(rel)
    \/ Return

SpecPair == InitVector /\ [][NextPair]_vars

NextRecent ==
    \/ \E batch \in RecentBatches : CreateEntities(batch)
    \/ \E batch \in RecentRelationBatches : CreateRelations(batch)
    \/ \E name \in RecentDeletes : DeleteEntity(name)
    \/ \E tie_asc \in BOOLEAN : ReadGraph(tie_asc)
    \/ Return
    \/ Tick

SpecRecent == Init /\ [][NextRecent]_vars

NextSearch ==
    \/ \E batch \in SearchEntityBatches : CreateEntities(batch)
    \/ \E name \in SearchNames : DeleteEntity(name)
    \/ \E query \in SearchQueries, limit \in SearchLimits, tie_asc \in BOOLEAN :
           SearchNodes(query, limit, tie_asc)
    \/ Return
    \/ Tick

SpecSearch == Init /\ [][NextSearch]_vars

NextLimit ==
    \/ \E batch \in LimitBatches : CreateEntities(batch)
    \/ \E name \in LimitDeletes : DeleteEntity(name)
    \/ \E query \in LimitQueries, limit \in LimitLimits, tie_asc \in BOOLEAN :
           SearchNodes(query, limit, tie_asc)
    \/ Return

SpecLimit == Init /\ [][NextLimit]_vars

(* One entity per create_entities call, so that the order of the rows is   *)
(* the order of the calls that created them.                               *)
NextSuccession ==
    \/ \E e \in SearchEntityInputs : CreateEntities(<<e>>)
    \/ \E name \in SearchNames : DeleteEntity(name)
    \/ \E query \in SearchQueries, limit \in SearchLimits, tie_asc \in BOOLEAN :
           SearchNodes(query, limit, tie_asc)
    \/ Return
    \/ Tick

SpecSuccession == Init /\ [][NextSuccession]_vars

----------------------------------------------------------------------------
(* Requests in flight and shutdown *)
(* A handler runs until it returns or reaches an await; what it awaits is  *)
(* resumed in a later turn, and other handlers may run in between.  tx is  *)
(* the transaction the running handler has open: db.transaction(fn)() is   *)
(* one synchronous call, so no other handler is started before it has      *)
(* committed or rolled back.  pending is a get_entity_with_relations call  *)
(* suspended at one of its awaits.                                         *)

\* a statement on a closed connection throws 'The database connection is not open'
is_open(conns, inst) == inst # <<>> /\ conns[inst[1].db].open

\* close(): try { this.db.close() } catch { console.error(...) }; closing a
\* closed handle changes nothing
close(conns, manager) == [conns EXCEPT ![manager.db].open = FALSE]

\* variant: a handler is started while another function is still running
any_time(t) == TRUE

\* process.on('SIGINT', ...): the event loop starts the handler once the
\* function that is running has returned
between_turns(t) == t = <<>>

\* the statements fn runs between BEGIN and COMMIT, in order
statements(op, arg) ==
    LET each(kinds, items) ==
            [i \in 1..(Len(items) * Len(kinds)) |->
                [kind |-> kinds[((i - 1) % Len(kinds)) + 1],
                 item |-> items[((i - 1) \div Len(kinds)) + 1]]]
    IN  CASE op = "create_entities" ->
                 each(<<"entity_row", "clear_observations", "insert_observations">>,
                      arg)
          [] op = "create_relations" -> each(<<"insert_relation">>, arg)
          [] op = "delete_entity" ->
                 each(<<"delete_observations", "delete_relations", "delete_entity">>,
                      <<arg>>)

\* one statement of a transaction on the tables as the ones before it left them
run_statement(d, s, t) ==
    CASE s.kind = "entity_row" ->
             LET v == validate_entity(s.item)
             IN  IF v # "none" THEN Fail(d, v)
                 ELSE Ok([d EXCEPT !.entities = upsert_entity_row(@, s.item, t)])
      [] s.kind = "clear_observations" ->
             Ok([d EXCEPT !.observations = clear_observations(@, s.item.name)])
      [] s.kind = "insert_observations" ->
             Ok([d EXCEPT !.observations =
                     insert_observations(@, s.item.name, s.item.observations)])
      [] s.kind = "insert_relation" -> insert_or_ignore_relation(d, s.item)
      [] s.kind = "delete_observations" ->
             Ok([d EXCEPT !.observations = clear_observations(@, s.item)])
      [] s.kind = "delete_relations" ->
             Ok([d EXCEPT !.relations =
                     SelectSeq(@, LAMBDA r : ~(r.source = s.item \/ r.target = s.item))])
      [] s.kind = "delete_entity" ->
             Ok([d EXCEPT !.entities = SelectSeq(@, LAMBDA e : e.name # s.item)])

\* a write up to BEGIN: what it checks before the transaction, then the
\* transaction is open
BeginTransaction(op, arg) ==
    LET early == IF op = "create_relations" /\ Len(arg) = 0 THEN <<Ok(db)>>
                 ELSE IF ~is_open(connections, instance)
                      THEN <<Fail(db, "not_open")>>
                 ELSE IF op = "delete_entity" /\ ~entity_exists(db, arg)
                      THEN <<Fail(db, "entity_not_found")>>
                 ELSE <<>>
    IN  /\ last = Idle
        /\ tx = <<>>
        /\ instance # <<>>
        /\ IF early # <<>>
           THEN /\ last' = Outcome(op, arg, early[1], NoResult)
                /\ tx' = tx
           ELSE /\ tx' = <<[op |-> op, arg |-> arg, todo |-> statements(op, arg),
                            snapshot |-> db]>>
                /\ last' = last
        /\ UNCHANGED <<db, now, instance, connections, twin, supplied, pending>>

\* the next statement runs; when it throws, ROLLBACK and the call fails
Statement ==
    /\ tx # <<>>
    /\ tx[1].todo # <<>>
    /\ LET r == run_statement(db, Head(tx[1].todo), now)
       IN  IF r.ok
           THEN /\ db' = r.db
                /\ tx' = <<[tx[1] EXCEPT !.todo = Tail(@)]>>
                /\ last' = last
           ELSE /\ db' = tx[1].snapshot
                /\ tx' = <<>>
                /\ last' = [Outcome(tx[1].op, tx[1].arg, r, NoResult)
                               EXCEPT !.before = tx[1].snapshot]
    /\ UNCHANGED <<now, instance, connections, twin, supplied, pending>>

\* fn has returned: COMMIT
Commit ==
    /\ tx # <<>>
    /\ tx[1].todo = <<>>
    /\ tx' = <<>>
    /\ last' = [Outcome(tx[1].op, tx[1].arg, Ok(db), NoResult)
                   EXCEPT !.before = tx[1].snapshot]
    /\ UNCHANGED <<db, now, instance, connections, twin, supplied, pending>>

\* the termination signal: await db?.close()
Close ==
    /\ instance # <<>>
    /\ between_turns(tx)
    /\ connections' = close(connections, instance[1])
    /\ UNCHANGED <<db, now, last, instance, twin, supplied, pending, tx>>

\* get_entity through the manager's connection
select_entity(conns, inst, d, name) ==
    IF is_open(conns, inst) THEN get_entity(d, name)
    ELSE [ok |-> FALSE, err |-> "not_open", entity |-> <<>>]

\* get_entity_with_relations up to its first await: get_entity(name)
StartEntityWithRelations(name) ==
    LET g == select_entity(connections, instance, db, name)
    IN  /\ last = Idle
        /\ tx = <<>>
        /\ pending = <<>>
        /\ instance # <<>>
        /\ IF g.ok
           THEN /\ pending' = <<[name |-> name, entity |-> g.entity, err |-> "none",
                                 read |-> FALSE, relations |-> <<>>,
                                 names |-> <<>>, related |-> <<>>]>>
                /\ last' = last
           ELSE /\ pending' = pending
                /\ last' = Outcome("get_entity_with_relations", name, g, NoResult)
        /\ UNCHANGED <<db, now, instance, connections, twin, supplied, tx>>

\* resumed: get_relations_for_entities([entity]), then the Set of the other ends
ReadRelations ==
    /\ tx = <<>>
    /\ pending # <<>>
    /\ ~pending[1].read
    /\ pending' =
         IF ~is_open(connections, instance)
         THEN <<[pending[1] EXCEPT !.read = TRUE, !.err = "not_open"]>>
         ELSE LET relations == get_relations_for_entities(db, <<pending[1].entity>>)
              IN  <<[pending[1] EXCEPT
                       !.read = TRUE, !.relations = relations,
                       !.names = related_names(relations, pending[1].name, <<>>)]>>
    /\ UNCHANGED <<db, now, last, instance, connections, twin, supplied, tx>>

\* variant: a neighbour that is not found fails the call
fetch_or_throw(p, g) ==
    IF g.ok THEN [p EXCEPT !.names = Tail(@), !.related = Append(@, g.entity)]
    ELSE [p EXCEPT !.names = <<>>, !.err = g.err]

\* try { relatedEntities.push(await this.get_entity(related_name)) }
\* catch { console.warn(...) }: whatever get_entity throws, the name is skipped
fetch_or_skip(p, g) ==
    [p EXCEPT !.names = Tail(@),
              !.related = IF g.ok THEN Append(@, g.entity) ELSE @]

\* resumed: one turn of the loop over the related names
FetchRelated ==
    /\ tx = <<>>
    /\ pending # <<>>
    /\ pending[1].read
    /\ pending[1].names # <<>>
    /\ pending' = <<fetch_or_skip(pending[1],
                        select_entity(connections, instance, db,
                                      Head(pending[1].names)))>>
    /\ UNCHANGED <<db, now, last, instance, connections, twin, supplied, tx>>

\* return { entity, relations, relatedEntities }, or the error thrown on the way
ReturnEntityWithRelations ==
    /\ last = Idle
    /\ tx = <<>>
    /\ pending # <<>>
    /\ pending[1].read
    /\ pending[1].names = <<>>
    /\ pending' = <<>>
    /\ last' = LET p == pending[1]
               IN  Outcome("get_entity_with_relations", p.name,
                           [ok |-> p.err = "none", err |-> p.err],
                           IF p.err # "none" THEN NoResult
                           ELSE [entities |-> <<p.entity>>,
                                 relations |-> p.relations,
                                 relatedEntities |-> p.related])
    /\ UNCHANGED <<db, now, instance, connections, twin, supplied, tx>>

\* the process from its start to after its shutdown
NextShutdown ==
    \/ tx = <<>> /\ \E config \in Configs : GetInstance(config)
    \/ \E batch \in SeqsUpTo({EntityInput(nA, tT, <<oX>>),
                              EntityInput(nB, tT, <<oUA>>),
                              EntityInput(nBlank, tT, <<oX>>)}, MaxEntityBatch) :
           BeginTransaction("create_entities", batch)
    \/ \E batch \in SeqsUpTo({Relation(nA, nB, rR), Relation(nB, nA, rS)},
                             MaxRelationBatch) :
           BeginTransaction("create_relations", batch)
    \/ \E name \in Names : BeginTransaction("delete_entity", name)
    \/ Statement
    \/ Commit
    \/ \E name \in Names : StartEntityWithRelations(name)
    \/ ReadRelations
    \/ FetchRelated
    \/ ReturnEntityWithRelations
    \/ Close
    \/ tx = <<>> /\ Return

SpecShutdown == InitProcess /\ [][NextShutdown]_vars

----------------------------------------------------------------------------
(* Schema *)
(* The file a process opens may already hold tables; a table the file does *)
(* not hold is not in the domain of db.  The indexes hold no data of their *)
(* own and are left out.                                                   *)

\* variant: CREATE TABLE without IF NOT EXISTS fails on a table the file holds
create_table(d, table) ==
    IF table \in DOMAIN d THEN Fail(d, "already_exists")
    ELSE Ok([t \in DOMAIN d \cup {table} |-> IF t \in DOMAIN d THEN d[t] ELSE <<>>])

\* CREATE TABLE IF NOT EXISTS, CREATE VIRTUAL TABLE IF NOT EXISTS ... USING
\* vec0(...): a new table is empty, and the vec0 table starts its own rowids
create_table_if_not_exists(d, table) ==
    IF table \in DOMAIN d THEN Ok(d)
    ELSE LET added == IF table = "entities_vec" THEN {table, "vec_sequence"}
                      ELSE {table}
         IN  Ok([t \in DOMAIN d \cup added |->
                    IF t \in DOMAIN d THEN d[t] ELSE EmptyVecDb[t]])

\* the tables of initialize() in the text-only and in the vector build
InitializeTables ==
    { <<"entities", "observations", "relations">>,
      <<"entities", "observations", "relations", "entities_vec">> }

\* export const schema = [...]
schema == <<"entities", "observations", "relations", "entities_vec">>

\* the statements are run one after the other; the first that throws ends the run
RECURSIVE exec(_, _)
exec(d, tables) ==
    IF tables = <<>> THEN Ok(d)
    ELSE LET r == create_table_if_not_exists(d, Head(tables))
         IN  IF ~r.ok THEN r ELSE exec(r.db, Tail(tables))

\* a process is started on the file: its first get_instance constructs the
\* manager and runs initialize()
Initialize(tables) ==
    LET r == exec(db, tables)
        g == get_instance(<<>>, <<>>, [dbPath |-> DefaultPath])
    IN  /\ last = Idle
        /\ db' = r.db
        /\ instance' = g.manager
        /\ connections' = g.conns
        /\ last' = Outcome("initialize", tables, r, VecNoResult)
        /\ UNCHANGED <<now, twin, supplied, pending, tx>>

\* run_migrations in a process of its own: get_instance with initialize(),
\* db.exec of every statement of schema, close() in finally
RunMigrations ==
    LET i == exec(db, schema)
        r == IF i.ok THEN exec(i.db, schema) ELSE i
    IN  /\ last = Idle
        /\ db' = r.db
        /\ last' = Outcome("run_migrations", <<>>, r, VecNoResult)
        /\ UNCHANGED <<now, instance, connections, twin, supplied, pending, tx>>

\* a file that holds no table yet
InitSchema ==
    /\ db = [t \in {} |-> <<>>]
    /\ now = 0
    /\ last = Idle
    /\ instance = <<>>
    /\ connections = <<>>
    /\ twin = EmptyVecDb
    /\ supplied = {}
    /\ pending = <<>>
    /\ tx = <<>>

NextSchema ==
    \/ \E tables \in InitializeTables : Initialize(tables)
    \/ RunMigrations
    \/ /\ "entities_vec" \in DOMAIN db
       /\ \E batch \in SeqsUpTo(PairEntityInputs, MaxEntityBatch) :
              VecCreateEntities(batch)
    \/ /\ "entities" \in DOMAIN db
       /\ \E batch \in RelationBatches : CreateRelations(batch)
    \/ Return

SpecSchema == InitSchema /\ [][NextSchema]_vars

----------------------------------------------------------------------------
(* Storage failures *)
(* A statement may fail in the storage layer (disk I/O, a corrupt page).   *)
(* broken names the entities whose observations cannot be read.            *)

\* for (const row of results) { try { ...observations of row.name... }
\* catch { console.warn(...); continue } }: a row whose statement throws is
\* logged and left out, the others are returned
process_rows(g, broken) ==
    [ok |-> g.ok, err |-> g.err, reads |-> g.reads,
     results |-> SelectSeq(g.results, LAMBDA r : r.entity.name \notin broken),
     warned |-> {g.results[i].entity.name : i \in 1..Len(g.results)} \cap broken]

SearchSimilarRows(embedding, limit, tie_asc, broken) ==
    LET g == process_rows(search_similar(db, embedding, limit, tie_asc), broken)
    IN  /\ last = Idle
        /\ last' = Outcome("search_similar", <<embedding, limit, tie_asc, broken>>, g,
                           [entities |-> [i \in 1..Len(g.results) |->
                                             g.results[i].entity],
                            relations |-> <<>>, reads |-> g.reads,
                            warned |-> g.warned])
        /\ UNCHANGED <<db, now, instance, connections, twin, supplied, pending, tx>>

NextFaults ==
    \/ \E batch \in SeqsUpTo(PairEntityInputs, MaxEntityBatch) : VecCreateEntities(batch)
    \/ \E embedding \in {vE1, vShort}, limit \in {<<>>, <<1>>}, tie_asc \in BOOLEAN,
          broken \in SUBSET Names :
           SearchSimilarRows(embedding, limit, tie_asc, broken)
    \/ Return

SpecFaults == InitVector /\ [][NextFaults]_vars

----------------------------------------------------------------------------
(* Properties *)

StoredTriples(d) ==
    {<<d.relations[i].source, d.relations[i].target, d.relations[i].relation_type>> :
        i \in 1..Len(d.relations)}

Triple(rel) == <<rel.from, rel.to, rel.relationType>>

CountTriple(d, rel) ==
    Cardinality({i \in 1..Len(d.relations) :
        <<d.relations[i].source, d.relations[i].target,
          d.relations[i].relation_type>> = Triple(rel)})

LastOccurrence(batch, i) ==
    \A j \in (i + 1)..Len(batch) : batch[j].name # batch[i].name

\* C1: after a successful create_entities, the observations stored for every
\* name of the batch are exactly the observation list of that name's last
\* occurrence in the batch; nothing stored before remains.
C1_ObservationsReplaced ==
    (last.op = "create_entities" /\ last.ok) =>
        \A i \in 1..Len(last.arg) :
            LastOccurrence(last.arg, i) =>
                select_observations(db.observations, last.arg[i].name)
                    = last.arg[i].observations

C1_Witness ==
    /\ last.op = "create_entities" /\ last.ok
    /\ Len(last.arg) = 1
    /\ last.arg[1].name = nA
    /\ select_observations(last.before.observations, nA) = <<oY, oX>>
    /\ select_observations(db.observations, nA) = <<oX>>

\* C2: in every reachable state no two rows of the relations table have the
\* same (source, target, relationType).
C2_NoDuplicateRelations ==
    \A i, j \in 1..Len(db.relations) :
        i # j =>
            <<db.relations[i].source, db.relations[i].target,
              db.relations[i].relation_type>>
            # <<db.relations[j].source, db.relations[j].target,
                db.relations[j].relation_type>>

C2_Witness ==
    /\ last.op = "create_relations" /\ last.ok
    /\ Len(last.arg) = 2
    /\ last.arg[1] = last.arg[2]
    /\ Triple(last.arg[1]) \in StoredTriples(db)
    /\ Len(last.before.relations) = 1
    /\ Len(db.relations) = 2

\* C3: after a successful delete_entity(A) there is no entity A, no
\* observation owned by A, no relation with A as source or target, and
\* get_entity(A) fails with not-found.
C3_DeleteCascades ==
    (last.op = "delete_entity" /\ last.ok) =>
        /\ \A i \in 1..Len(db.entities) : db.entities[i].name # last.arg
        /\ \A i \in 1..Len(db.observations) :
               db.observations[i].entity_name # last.arg
        /\ \A i \in 1..Len(db.relations) :
               /\ db.relations[i].source # last.arg
               /\ db.relations[i].target # last.arg
        /\ ~get_entity(db, last.arg).ok
        /\ get_entity(db, last.arg).err = "entity_not_found"

C3_Witness ==
    /\ last.op = "delete_entity" /\ last.ok
    /\ last.arg = nB
    /\ Len(select_observations(last.before.observations, nB)) > 0
    /\ \E i, j \in 1..Len(last.before.relations) :
           /\ last.before.relations[i].source = nB
           /\ last.before.relations[j].target = nB
           /\ last.before.relations[j].source # nB
    /\ Len(db.entities) = 1

ItemInvalid(e) ==
    \/ \A k \in 1..Len(e.name) : e.name[k] = " "
    \/ \A k \in 1..Len(e.entityType) : e.entityType[k] = " "
    \/ e.observations = <<>>
    \/ \E o \in 1..Len(e.observations) :
           \A k \in 1..Len(e.observations[o]) : e.observations[o][k] = " "

\* C4: a create_entities batch with an invalid item (blank name, blank
\* entityType, empty observation list, blank observation) fails and leaves
\* the tables exactly as they were, also for valid items before the invalid one.
C4_CreateEntitiesAllOrNothing ==
    (last.op = "create_entities"
        /\ \E i \in 1..Len(last.arg) : ItemInvalid(last.arg[i])) =>
        /\ ~last.ok
        /\ db = last.before

C4_Witness ==
    /\ last.op = "create_entities" /\ ~last.ok
    /\ Len(last.arg) = 2
    /\ ~ItemInvalid(last.arg[1])
    /\ ItemInvalid(last.arg[2])
    /\ ~entity_exists(last.before, last.arg[1].name)
    /\ Len(last.before.entities) = 1

\* C5: create_relations with triples that are all stored already succeeds and
\* leaves the relations table unchanged; after any successful
\* create_relations each triple of the batch is stored exactly once.
C5_CreateRelationsIdempotent ==
    last.op = "create_relations" =>
        /\ (\A i \in 1..Len(last.arg) :
                Triple(last.arg[i]) \in StoredTriples(last.before)) =>
               (last.ok /\ db = last.before)
        /\ last.ok =>
               \A i \in 1..Len(last.arg) : CountTriple(db, last.arg[i]) = 1

C5_Witness ==
    /\ last.op = "create_relations" /\ last.ok
    /\ Len(last.arg) = 2
    /\ last.arg[1] # last.arg[2]
    /\ \A i \in 1..2 : Triple(last.arg[i]) \in StoredTriples(last.before)
    /\ db = last.before

SearchPattern(q) == <<"%">> \o normalize_query(q) \o <<"%">>

\* 3: the name matches, 2: the type but not the name, 1: neither
MatchRank(e, q) ==
    IF like(e.name, SearchPattern(q)) THEN 3
    ELSE IF like(e.entityType, SearchPattern(q)) THEN 2
    ELSE 1

CreatedAt(d, name) ==
    d.entities[CHOOSE i \in 1..Len(d.entities) : d.entities[i].name = name].created_at

\* C6: in the entity list of a text search, an entity whose name matches
\* comes before every entity whose name does not, and an entity whose type
\* matches comes before every entity matching on an observation only,
\* whatever the creation times.
C6_RankPrecedence ==
    (last.op = "search_nodes" /\ last.ok) =>
        \A i, j \in 1..Len(last.result.entities) :
            MatchRank(last.result.entities[i], last.arg[1])
                > MatchRank(last.result.entities[j], last.arg[1])
            => i < j

C6_Witness ==
    /\ last.op = "search_nodes" /\ last.ok
    /\ Len(last.result.entities) = 2
    /\ MatchRank(last.result.entities[1], last.arg[1]) = 2
    /\ MatchRank(last.result.entities[2], last.arg[1]) = 1
    /\ CreatedAt(db, last.result.entities[1].name)
           < CreatedAt(db, last.result.entities[2].name)

EntityNames(entities) == {entities[i].name : i \in 1..Len(entities)}

\* the rows of the entities table are in the order of their creation
MostRecent(d, n) ==
    {d.entities[i].name :
        i \in {k \in 1..Len(d.entities) : k > Len(d.entities) - n}}

RelationsTouching(d, names) ==
    {<<d.relations[i].source, d.relations[i].target, d.relations[i].relation_type>> :
        i \in {k \in 1..Len(d.relations) :
                  d.relations[k].source \in names \/ d.relations[k].target \in names}}

\* C7: read_graph returns exactly the 10 most recently created entities (all
\* of them when there are at most 10) and exactly the stored relations with
\* an endpoint among the returned entities.
C7_ReadGraphMostRecent ==
    last.op = "read_graph" =>
        /\ EntityNames(last.result.entities) = MostRecent(db, DefaultRecentLimit)
        /\ {Triple(last.result.relations[i]) : i \in 1..Len(last.result.relations)}
               = RelationsTouching(db, EntityNames(last.result.entities))

StoredEntity(d, name) ==
    LET row == d.entities[CHOOSE i \in 1..Len(d.entities) : d.entities[i].name = name]
    IN  [name |-> name, entityType |-> row.entity_type,
         observations |-> select_observations(d.observations, name)]

OtherEndpoints(d, name) ==
    {d.relations[i].source :
        i \in {k \in 1..Len(d.relations) : d.relations[k].target = name}}
    \cup {d.relations[i].target :
        i \in {k \in 1..Len(d.relations) : d.relations[k].source = name}}

\* C8: get_entity_with_relations(N) for a stored N returns N, every stored
\* relation with N as source or target, and as relatedEntities each other
\* endpoint of those relations exactly once; N itself is never among them.
C8_EntityWithRelations ==
    (last.op = "get_entity_with_relations" /\ last.ok) =>
        LET res == last.result
            N == last.arg
        IN  /\ res.entities = <<StoredEntity(db, N)>>
            /\ {Triple(res.relations[i]) : i \in 1..Len(res.relations)}
                   = RelationsTouching(db, {N})
            /\ Len(res.relations) = Cardinality(RelationsTouching(db, {N}))
            /\ EntityNames(res.relatedEntities) = OtherEndpoints(db, N) \ {N}
            /\ Len(res.relatedEntities) = Cardinality(OtherEndpoints(db, N) \ {N})
            /\ \A i \in 1..Len(res.relatedEntities) :
                   res.relatedEntities[i]
                       = StoredEntity(db, res.relatedEntities[i].name)

C8_Witness ==
    /\ last.op = "get_entity_with_relations" /\ last.ok
    /\ last.arg = nA
    /\ <<nA, nA, rR>> \in StoredTriples(db)
    /\ Len(last.result.relations) = 4
    /\ Len(last.result.relatedEntities) = 1
    /\ last.result.relatedEntities[1].name = nB

\* the relations of the deleted entity B that came from another entity A
IncomingBefore ==
    {i \in 1..Len(last.before.relations) :
        /\ last.before.relations[i].target = last.arg
        /\ last.before.relations[i].source # last.arg}

\* C9 (as claimed): once B is deleted, get_entity_with_relations(A) still
\* returns the relation A->B and leaves B out of relatedEntities.
C9_DanglingRelationReturned ==
    (last.op = "delete_entity" /\ last.ok) =>
        \A i \in IncomingBefore :
            LET r == last.before.relations[i]
                g == get_entity_with_relations(db, r.source)
            IN  /\ g.ok
                /\ \E k \in 1..Len(g.result.relations) :
                       g.result.relations[k]
                           = Relation(r.source, r.target, r.relation_type)
                /\ last.arg \notin EntityNames(g.result.relatedEntities)

\* C9 (amended): delete_entity(B) removes the relation A->B with B, so a
\* get_entity_with_relations(A) after it succeeds and returns neither that
\* relation nor B; every endpoint of a relation it returns is stored.
C9_NoDanglingRelation ==
    /\ (last.op = "delete_entity" /\ last.ok) =>
           \A i \in IncomingBefore :
               LET r == last.before.relations[i]
                   g == get_entity_with_relations(db, r.source)
               IN  /\ g.ok
                   /\ \A k \in 1..Len(g.result.relations) :
                          /\ g.result.relations[k].from # last.arg
                          /\ g.result.relations[k].to # last.arg
                   /\ last.arg \notin EntityNames(g.result.relatedEntities)
    /\ (last.op = "get_entity_with_relations" /\ last.ok) =>
           \A k \in 1..Len(last.result.relations) :
               /\ entity_exists(db, last.result.relations[k].from)
               /\ entity_exists(db, last.result.relations[k].to)

C9_Witness ==
    /\ last.op = "delete_entity" /\ last.ok
    /\ last.arg = nB
    /\ IncomingBefore # {}
    /\ entity_exists(db, nA)
    /\ <<nA, nA, rR>> \in StoredTriples(db)

MissingEndpoint(d, rel) ==
    \/ \A i \in 1..Len(d.entities) : d.entities[i].name # rel.from
    \/ \A i \in 1..Len(d.entities) : d.entities[i].name # rel.to

\* C10 (as claimed): create_relations with a triple whose source or target
\* is not a stored entity succeeds and stores the triple.
C10_SoftReferencesStored ==
    (last.op = "create_relations"
        /\ \E i \in 1..Len(last.arg) : MissingEndpoint(last.before, last.arg[i])) =>
        /\ last.ok
        /\ \A i \in 1..Len(last.arg) : Triple(last.arg[i]) \in StoredTriples(db)

\* C10 (amended): create_relations with a triple whose source or target is
\* not a stored entity fails on the foreign key and stores no triple of the
\* batch.
C10_ForeignKeyRejects ==
    (last.op = "create_relations"
        /\ \E i \in 1..Len(last.arg) : MissingEndpoint(last.before, last.arg[i])) =>
        /\ ~last.ok
        /\ last.err = "foreign_key"
        /\ db = last.before

C10_Witness ==
    /\ last.op = "create_relations" /\ ~last.ok
    /\ Len(last.arg) = 2
    /\ ~MissingEndpoint(last.before, last.arg[1])
    /\ Triple(last.arg[1]) \notin StoredTriples(last.before)
    /\ MissingEndpoint(last.before, last.arg[2])
    /\ Len(last.before.entities) = 1

----------------------------------------------------------------------------
(* Text matching as the search is described: the query is cut at its       *)
(* separators, and a text matches when the pieces occur in it in order,    *)
(* letter case aside.                                                      *)

CasePairs == {<<"A", "a">>, <<"B", "b">>, <<"U", "u">>, <<"P", "p">>,
              <<"W", "w">>, <<"X", "x">>}

Fold(c) ==
    IF \E p \in CasePairs : p[1] = c
    THEN (CHOOSE p \in CasePairs : p[1] = c)[2]
    ELSE c

RECURSIVE Segments(_, _)
Segments(q, cur) ==
    IF q = <<>> THEN (IF cur = <<>> THEN <<>> ELSE <<cur>>)
    ELSE IF Head(q) \in {" ", "_", "-"}
         THEN (IF cur = <<>> THEN <<>> ELSE <<cur>>) \o Segments(Tail(q), <<>>)
         ELSE Segments(Tail(q), Append(cur, Head(q)))

OccursAt(text, seg, i) ==
    /\ i + Len(seg) - 1 <= Len(text)
    /\ \A k \in 1..Len(seg) : Fold(text[i + k - 1]) = Fold(seg[k])

RECURSIVE InOrder(_, _, _)
InOrder(text, segs, from) ==
    \/ segs = <<>>
    \/ \E i \in from..Len(text) :
           /\ OccursAt(text, Head(segs), i)
           /\ InOrder(text, Tail(segs), i + Len(Head(segs)))

TextMatches(text, q) == InOrder(text, Segments(q, <<>>), 1)

NameMatches(d, i, q) == TextMatches(d.entities[i].name, q)
TypeMatches(d, i, q) == TextMatches(d.entities[i].entity_type, q)
ObservationMatches(d, i, q) ==
    \E k \in 1..Len(d.observations) :
        /\ d.observations[k].entity_name = d.entities[i].name
        /\ TextMatches(d.observations[k].content, q)

Matching(d, q) ==
    {d.entities[i].name :
        i \in {k \in 1..Len(d.entities) :
                  NameMatches(d, k, q) \/ TypeMatches(d, k, q)
                  \/ ObservationMatches(d, k, q)}}

RequestedLimit(limit) == IF limit = <<>> THEN 10 ELSE limit[1]

Clamped(n) == IF n < 1 THEN 1 ELSE IF n > 50 THEN 50 ELSE n

Min(a, b) == IF a < b THEN a ELSE b

\* C11: a text search returns min(M, clamp(limit, 1, 50)) entities, M being
\* the number of matching entities and 10 the limit when none is given.
C11_ResultCount ==
    (last.op = "search_nodes" /\ last.ok) =>
        Len(last.result.entities)
            = Min(Cardinality(Matching(db, last.arg[1])),
                  Clamped(RequestedLimit(last.arg[2])))

C11_Witness ==
    /\ last.op = "search_nodes" /\ last.ok
    /\ last.arg[2] = <<1000>>
    /\ Cardinality(Matching(db, last.arg[1])) = 51
    /\ Len(last.result.entities) = 50

SeparatorTexts == {<<"w", " ", "d">>, <<"w", "-", "d">>, <<"w", "_", "d">>,
                   <<"W", " ", "d">>}

AllFit(d, limit) == Len(d.entities) <= Clamped(RequestedLimit(limit))

\* C12: queries that differ only in the separator used (space, hyphen,
\* underscore) return the same result, and each of them finds the entities
\* whose type is written with any of the three separators.
C12_SeparatorsInterchangeable ==
    (last.op = "search_nodes" /\ last.arg[1] \in SeparatorQueries) =>
        /\ last.ok
        /\ \A q \in SeparatorQueries :
               search_nodes(db, q, last.arg[2], last.arg[3]).result = last.result
        /\ AllFit(db, last.arg[2]) =>
               \A i \in 1..Len(db.entities) :
                   db.entities[i].entity_type \in SeparatorTexts
                       => db.entities[i].name \in EntityNames(last.result.entities)

C12_Witness ==
    /\ last.op = "search_nodes" /\ last.ok
    /\ last.arg[1] = <<"w", "-", "d">>
    /\ {db.entities[i].entity_type : i \in 1..Len(db.entities)}
           = {<<"w", "_", "d">>, <<"W", " ", "d">>, <<"w", "-", "d">>}
    /\ Len(last.result.entities) = 3

LetterPairs == CasePairs \cup {<<"É", "é">>}

FoldLetter(c) ==
    IF \E p \in LetterPairs : p[1] = c
    THEN (CHOOSE p \in LetterPairs : p[1] = c)[2]
    ELSE c

FoldText(s) == [i \in 1..Len(s) |-> FoldLetter(s[i])]

FoldStore(d) ==
    [d EXCEPT
        !.entities = [i \in 1..Len(d.entities) |->
            [d.entities[i] EXCEPT !.name = FoldText(@),
                                  !.entity_type = FoldText(@)]],
        !.observations = [i \in 1..Len(d.observations) |->
            [d.observations[i] EXCEPT !.entity_name = FoldText(@),
                                      !.content = FoldText(@)]]]

\* the names of the entities matching the query, letter case aside
MatchingAnyCase(d, q) ==
    {d.entities[i].name :
        i \in {k \in 1..Len(d.entities) :
                  FoldText(d.entities[k].name)
                      \in Matching(FoldStore(d), FoldText(q))}}

\* C13: the entities returned by a text search all match the query in their
\* name, their type or one of their observations, letter case aside, and
\* every such entity is returned when the limit leaves room for all.
C13_MatchIffFieldMatches ==
    (last.op = "search_nodes" /\ last.ok) =>
        /\ EntityNames(last.result.entities) \subseteq MatchingAnyCase(db, last.arg[1])
        /\ Cardinality(MatchingAnyCase(db, last.arg[1]))
               <= Clamped(RequestedLimit(last.arg[2]))
           => EntityNames(last.result.entities) = MatchingAnyCase(db, last.arg[1])

\* the same with the letters A to Z only folded
C13_MatchIffFieldMatchesAscii ==
    (last.op = "search_nodes" /\ last.ok) =>
        /\ EntityNames(last.result.entities) \subseteq Matching(db, last.arg[1])
        /\ Cardinality(Matching(db, last.arg[1]))
               <= Clamped(RequestedLimit(last.arg[2]))
           => EntityNames(last.result.entities) = Matching(db, last.arg[1])

C13_Witness ==
    /\ last.op = "search_nodes" /\ last.ok
    /\ last.arg[1] = <<"X">>
    /\ EntityNames(last.result.entities) = {<<"p">>, <<"r">>}
    /\ \E i \in 1..Len(db.entities) : db.entities[i].name = <<"q">>

MatchingObservations(d, name, q) ==
    {k \in 1..Len(d.observations) :
        /\ d.observations[k].entity_name = name
        /\ TextMatches(d.observations[k].content, q)}

\* C14: the entity list of a text search names no entity twice, and the
\* limit counts entities: an entity with several matching observations
\* takes one place.
C14_Deduplicated ==
    (last.op = "search_nodes" /\ last.ok) =>
        /\ \A i, j \in 1..Len(last.result.entities) :
               last.result.entities[i].name = last.result.entities[j].name => i = j
        /\ Cardinality(EntityNames(last.result.entities))
               = Min(Cardinality(Matching(db, last.arg[1])),
                     Clamped(RequestedLimit(last.arg[2])))

C14_Witness ==
    /\ last.op = "search_nodes" /\ last.ok
    /\ last.arg[2] = <<2>>
    /\ Cardinality(MatchingObservations(db, <<"p">>, last.arg[1])) = 2
    /\ Len(last.result.entities) = 2
    /\ EntityNames(last.result.entities) = {<<"p">>, <<"r">>}

ReturnedTriples(relations) == {Triple(relations[i]) : i \in 1..Len(relations)}

\* C15: the relations returned by a text search are exactly the stored
\* relations with an endpoint among the returned entities, each once; when
\* no entity matches, the entity list and the relation list are empty.
C15_SearchRelations ==
    (last.op = "search_nodes" /\ last.ok) =>
        /\ ReturnedTriples(last.result.relations)
               = RelationsTouching(db, EntityNames(last.result.entities))
        /\ Len(last.result.relations)
               = Cardinality(ReturnedTriples(last.result.relations))
        /\ Matching(db, last.arg[1]) = {} =>
               last.result.entities = <<>> /\ last.result.relations = <<>>

C15_Witness ==
    /\ last.op = "search_nodes" /\ last.ok
    /\ EntityNames(last.result.entities) = {<<"b">>}
    /\ StoredTriples(db) = {<<nA, nA, rR>>, <<nA, nB, rR>>, <<nB, nA, rR>>}
    /\ ReturnedTriples(last.result.relations) = {<<nA, nB, rR>>, <<nB, nA, rR>>}

C15_WitnessNoMatch ==
    /\ last.op = "search_nodes" /\ last.ok
    /\ Matching(db, last.arg[1]) = {}
    /\ StoredTriples(db) # {}
    /\ last.result.relations = <<>>

RowIndex(d, name) == CHOOSE i \in 1..Len(d.entities) : d.entities[i].name = name

\* C16: among the entities of a text search with the same relevance rank,
\* an entity created by a later create_entities call comes before an entity
\* created by an earlier call, also when the calls follow each other within
\* the same second.
C16_LaterCreatedFirst ==
    (last.op = "search_nodes" /\ last.ok) =>
        \A i, j \in 1..Len(last.result.entities) :
            /\ MatchRank(last.result.entities[i], last.arg[1])
                   = MatchRank(last.result.entities[j], last.arg[1])
            /\ RowIndex(db, last.result.entities[i].name)
                   > RowIndex(db, last.result.entities[j].name)
            => i < j

\* the same for entities created in different seconds
C16_LaterSecondFirst ==
    (last.op = "search_nodes" /\ last.ok) =>
        \A i, j \in 1..Len(last.result.entities) :
            /\ MatchRank(last.result.entities[i], last.arg[1])
                   = MatchRank(last.result.entities[j], last.arg[1])
            /\ CreatedAt(db, last.result.entities[i].name)
                   > CreatedAt(db, last.result.entities[j].name)
            => i < j

\* C17: search_nodes with an empty or all-whitespace query fails with the
\* empty-query error, returns nothing and leaves the store as it was.
C17_BlankQueryRejected ==
    (last.op = "search_nodes" /\ \A k \in 1..Len(last.arg[1]) : last.arg[1][k] = " ") =>
        /\ ~last.ok
        /\ last.err = "empty_query"
        /\ last.result = NoResult
        /\ db = last.before

C17_Witness ==
    /\ last.op = "search_nodes"
    /\ last.arg[1] = <<" ">>
    /\ db.entities # <<>>
    /\ ~last.ok

NameStored(d, name) == \E i \in 1..Len(d.entities) : d.entities[i].name = name

\* C18: get_entity, delete_entity and get_entity_with_relations on a name
\* that is not stored fail with the not-found error and leave the store as
\* it was.
C18_NotFound ==
    (/\ last.op \in {"get_entity", "delete_entity", "get_entity_with_relations"}
     /\ ~NameStored(last.before, last.arg)) =>
        /\ ~last.ok
        /\ last.err = "entity_not_found"
        /\ last.result = NoResult
        /\ db = last.before

C18_Witness ==
    /\ last.op = "delete_entity"
    /\ ~NameStored(last.before, last.arg)
    /\ db.relations # <<>>
    /\ ~last.ok

C18_WitnessGetEntity ==
    /\ last.op = "get_entity"
    /\ ~NameStored(last.before, last.arg)
    /\ db.entities # <<>>
    /\ ~last.ok

C18_WitnessGetEntityWithRelations ==
    /\ last.op = "get_entity_with_relations"
    /\ ~NameStored(last.before, last.arg)
    /\ db.relations # <<>>
    /\ ~last.ok

\* C19: delete_relation(s, t, ty) removes the stored triple (s, t, ty) and
\* nothing else (the reverse triple, the triples of another type, the
\* entities and the observations stay); when the triple is not stored it
\* fails with the not-found error and the store is unchanged.
C19_DeleteRelationExact ==
    last.op = "delete_relation" =>
        IF Triple(last.arg) \in StoredTriples(last.before)
        THEN /\ last.ok
             /\ StoredTriples(db) = StoredTriples(last.before) \ {Triple(last.arg)}
             /\ Len(db.relations) = Len(last.before.relations) - 1
             /\ db.entities = last.before.entities
             /\ db.observations = last.before.observations
        ELSE /\ ~last.ok
             /\ last.err = "relation_not_found"
             /\ db = last.before

C19_Witness ==
    /\ last.op = "delete_relation" /\ last.ok
    /\ last.arg = Relation(nA, nB, rR)
    /\ StoredTriples(last.before) = {<<nA, nB, rR>>, <<nB, nA, rR>>, <<nA, nB, rS>>}
    /\ StoredTriples(db) = {<<nB, nA, rR>>, <<nA, nB, rS>>}

C19_WitnessNotStored ==
    /\ last.op = "delete_relation" /\ ~last.ok
    /\ last.arg = Relation(nA, nB, rR)
    /\ StoredTriples(db) = {<<nB, nA, rR>>, <<nA, nB, rS>>}

\* C20: no two stored entities have the same name, whatever was created:
\* a name already stored or named twice in one batch stays one entity.
C20_UniqueNames ==
    \A i, j \in 1..Len(db.entities) :
        db.entities[i].name = db.entities[j].name => i = j

C20_Witness ==
    /\ last.op = "create_entities" /\ last.ok
    /\ Len(last.arg) = 2
    /\ last.arg[1].name = last.arg[2].name
    /\ NameStored(last.before, last.arg[1].name)
    /\ Cardinality({i \in 1..Len(db.entities) :
                       db.entities[i].name = last.arg[1].name}) = 1

NamesInOrder(d) == [i \in 1..Len(d.entities) |-> d.entities[i].name]

\* C21: a successful create_entities leaves every entity that was already
\* stored with its creation time and in its place among the entities that
\* were already stored, also when it rewrites the entity's type and
\* observations.
C21_UpsertKeepsCreation ==
    (last.op = "create_entities" /\ last.ok) =>
        /\ \A i \in 1..Len(last.before.entities) :
               /\ NameStored(db, last.before.entities[i].name)
               /\ CreatedAt(db, last.before.entities[i].name)
                      = last.before.entities[i].created_at
        /\ SelectSeq(NamesInOrder(db), LAMBDA n : NameStored(last.before, n))
               = NamesInOrder(last.before)

C21_Witness ==
    /\ last.op = "create_entities" /\ last.ok
    /\ NamesInOrder(last.before) = <<nA, nB>>
    /\ last.arg = <<EntityInput(nA, tU, <<oY, oX>>)>>
    /\ StoredEntity(last.before, nA) = EntityInput(nA, tT, <<oX>>)
    /\ StoredEntity(db, nA) = EntityInput(nA, tU, <<oY, oX>>)
    /\ CreatedAt(db, nA) < now

\* C28: a create_relations call that fails stores no triple of its batch,
\* the triples before the failing one included.
C28_CreateRelationsAllOrNothing ==
    (last.op = "create_relations" /\ ~last.ok) => db = last.before

C28_Witness ==
    /\ last.op = "create_relations" /\ ~last.ok
    /\ Len(last.arg) = 2
    /\ NameStored(last.before, last.arg[1].from)
    /\ NameStored(last.before, last.arg[1].to)
    /\ Triple(last.arg[1]) \notin StoredTriples(last.before)
    /\ Triple(last.arg[1]) \notin StoredTriples(db)

AllSpaces(s) == \A k \in 1..Len(s) : s[k] = " "

ObservationsOf(d, name) ==
    {k \in 1..Len(d.observations) : d.observations[k].entity_name = name}

\* C30: every stored entity has a non-blank name, a non-blank type and at
\* least one observation; every stored observation is non-blank and belongs
\* to a stored entity.
C30_StoreWellFormed ==
    /\ \A i \in 1..Len(db.entities) :
           /\ ~AllSpaces(db.entities[i].name)
           /\ ~AllSpaces(db.entities[i].entity_type)
           /\ ObservationsOf(db, db.entities[i].name) # {}
    /\ \A k \in 1..Len(db.observations) :
           /\ ~AllSpaces(db.observations[k].content)
           /\ NameStored(db, db.observations[k].entity_name)

C30_Witness ==
    /\ last.op = "delete_entity" /\ last.ok
    /\ last.before.relations # <<>>
    /\ Len(last.before.entities) = 2
    /\ Len(db.entities) = 1
    /\ Len(db.observations) = 2

C30_WitnessRejected ==
    /\ last.op = "create_entities" /\ ~last.ok
    /\ Len(last.arg) = 2
    /\ \E k \in 1..Len(last.arg[2].observations) : AllSpaces(last.arg[2].observations[k])
    /\ db.entities # <<>>

\* C29: every successful get_instance call returns the one manager the
\* process has; at most one connection is ever opened, it is initialized
\* once, and a call with another dbPath returns the manager of the first
\* path.
C29_Singleton ==
    /\ Len(connections) <= 1
    /\ \A k \in 1..Len(connections) : connections[k].initialized <= 1
    /\ (last.op = "get_instance" /\ last.ok) =>
           /\ last.result = <<Manager(1)>>
           /\ instance = <<Manager(1)>>
           /\ Len(connections) = 1
           /\ connections[1].initialized = 1

C29_Witness ==
    /\ last.op = "get_instance" /\ last.ok
    /\ last.arg = [dbPath |-> "other.db"]
    /\ last.result = <<Manager(1)>>
    /\ connections = <<[Connection(DefaultPath) EXCEPT !.initialized = 1]>>
    /\ db.entities # <<>>

\* what a stored vector reads back as
ReadBack(numbers) == buffer_to_vector(vector_to_buffer(numbers).buffer)

SuppliedFor(name) ==
    IF \E s \in supplied : s.name = name
    THEN <<ReadBack((CHOOSE s \in supplied : s.name = name).embedding)>>
    ELSE <<>>

\* C22: get_entity(N) returns as embedding the vector last supplied for N
\* since N was created, and none when none was supplied for N.
C22_OwnEmbedding ==
    (last.op = "get_entity" /\ last.ok) =>
        last.result.entities[1].embedding = SuppliedFor(last.arg)

\* C24: every entity a vector search returns was supplied an embedding.
C24_SearchOnlyEmbedded ==
    (/\ last.ok
     /\ \/ last.op = "search_similar"
        \/ last.op = "search_nodes" /\ last.arg[1].array) =>
        \A i \in 1..Len(last.result.entities) :
            SuppliedFor(last.result.entities[i].name) # <<>>

WrongLength(numbers) == array_length(numbers) # 1536

WrongEmbedding(e) == e.embedding # <<>> /\ WrongLength(e.embedding[1])

\* C23: create_entities with an item whose embedding has not 1536 components
\* fails and changes nothing; the error is the dimension mismatch when the
\* items up to and including the first such item are valid otherwise.
C23_DimensionMismatchRejected ==
    (last.op = "create_entities"
        /\ \E i \in 1..Len(last.arg) : WrongEmbedding(last.arg[i])) =>
        /\ ~last.ok
        /\ db = last.before
        /\ \A i \in 1..Len(last.arg) :
               (/\ WrongEmbedding(last.arg[i])
                /\ \A j \in 1..i : ~ItemInvalid(last.arg[j])
                /\ \A j \in 1..(i - 1) : ~WrongEmbedding(last.arg[j]))
               => last.err = "dimension_mismatch"

C23_Witness ==
    /\ last.op = "create_entities" /\ ~last.ok
    /\ last.err = "dimension_mismatch"
    /\ Len(last.arg) = 2
    /\ ~NameStored(last.before, last.arg[1].name)
    /\ last.arg[1].embedding # <<>> /\ ~WrongLength(last.arg[1].embedding[1])
    /\ WrongEmbedding(last.arg[2])
    /\ ~NameStored(db, last.arg[1].name)
    /\ db.entities_vec = last.before.entities_vec
    /\ db.entities # <<>>

NotANumber(c) == c = "x"

AllNumbers(numbers) == \A i \in 1..Len(numbers) : ~NotANumber(numbers[i].v)

QueryVector ==
    IF last.op = "search_similar" THEN last.arg[1] ELSE last.arg[1].value

C25_WitnessSimilar ==
    /\ last.op = "search_similar"
    /\ array_length(QueryVector) = 1537
    /\ ~last.ok
    /\ search_similar(db, vE1, <<>>, TRUE).results # <<>>

Malformed(c) == c \in {"NaN", "Infinity", "x"}

HasMalformed(numbers) == \E i \in 1..Len(numbers) : Malformed(numbers[i].v)

Zeroed(numbers) ==
    merge_runs([i \in 1..Len(numbers) |->
        Run(numbers[i].n, IF Malformed(numbers[i].v) THEN "0" ELSE numbers[i].v)])

\* C26 (as claimed): search_nodes with an array of 1536 components of which
\* some are malformed (not a number, NaN, infinite) succeeds and returns
\* what the query with zeros in their place returns.
C26_MalformedQueryCoerced ==
    (/\ last.op = "search_nodes" /\ last.arg[1].array
     /\ ~WrongLength(QueryVector)
     /\ HasMalformed(QueryVector)) =>
        /\ last.ok
        /\ last.result
               = vec_search_nodes(db, [array |-> TRUE, value |-> Zeroed(QueryVector)],
                                  last.arg[2]).result

\* C26 (amended): such a query succeeds with NaN and infinite components
\* read as zeros when all its components are numbers; with a component that
\* is not a number it fails before any statement is run.
C26_NonFiniteQueryCoerced ==
    (/\ last.op = "search_nodes" /\ last.arg[1].array
     /\ ~WrongLength(QueryVector)
     /\ HasMalformed(QueryVector)) =>
        IF AllNumbers(QueryVector)
        THEN /\ last.ok
             /\ last.result
                    = vec_search_nodes(db,
                                       [array |-> TRUE, value |-> Zeroed(QueryVector)],
                                       last.arg[2]).result
        ELSE /\ ~last.ok
             /\ last.err = "not_numbers"
             /\ last.result.reads = 0

C26_Witness ==
    /\ last.op = "search_nodes" /\ last.ok
    /\ QueryVector = vNaN
    /\ Len(last.result.entities) = 2

C26_WitnessNotNumbers ==
    /\ last.op = "search_nodes" /\ ~last.ok
    /\ QueryVector = vText
    /\ db.entities_vec # <<>>

NonVectorState(d) ==
    [entities |-> [i \in 1..Len(d.entities) |->
                      [name |-> d.entities[i].name,
                       entity_type |-> d.entities[i].entity_type]],
     observations |-> d.observations,
     relations |-> d.relations]

\* C27: two runs given the same create_entities, create_relations,
\* delete_entity and delete_relation calls, one with valid embeddings and
\* one without, hold the same entity names, types, observations and
\* relations after every call, and every call succeeds in both or in neither.
C27_EmbeddingsLeaveRestAlone ==
    /\ NonVectorState(db) = NonVectorState(twin)
    /\ (last # Idle /\ "twin_ok" \in DOMAIN last.result) =>
           last.ok = last.result.twin_ok

C27_Witness ==
    /\ last.op = "delete_relation" /\ last.ok
    /\ db.entities_vec # <<>>
    /\ twin.entities_vec = <<>>
    /\ Len(db.entities) = 2
    /\ db.relations # <<>>
    /\ \E i \in 1..Len(db.entities) :
           /\ SuppliedFor(db.entities[i].name) # <<>>
           /\ Cardinality(ObservationsOf(db, db.entities[i].name)) = 1
           /\ db.entities[i].entity_type = tU

C27_WitnessFailure ==
    /\ last.op = "create_relations" /\ ~last.ok
    /\ db.entities_vec # <<>>
    /\ twin.entities # <<>>

\* C35: in every reachable state the source and the target of every stored
\* relation are names of stored entities.
C35_ReferentialIntegrity ==
    \A i \in 1..Len(db.relations) :
        /\ NameStored(db, db.relations[i].source)
        /\ NameStored(db, db.relations[i].target)

C35_Witness ==
    /\ last.op = "delete_entity" /\ last.ok
    /\ \E i \in 1..Len(last.before.relations) :
           last.before.relations[i].target = last.arg
    /\ db.relations # <<>>

C35_WitnessRejected ==
    /\ last.op = "create_relations" /\ ~last.ok
    /\ last.err = "foreign_key"
    /\ db.entities # <<>>

RowOf(d, name) == d.entities[RowIndex(d, name)]

Embedding(d, name) ==
    IF "entities_vec" \in DOMAIN d
    THEN vec_get_entity(d, name).entity.embedding
    ELSE <<>>

NamedIn(batch) == {batch[i].name : i \in 1..Len(batch)}

\* C37: create_entities leaves the relations as they were, and leaves every
\* entity its batch does not name with its row and its observations.
C37_CreateEntitiesFrame ==
    (last.op = "create_entities") =>
        /\ db.relations = last.before.relations
        /\ \A i \in 1..Len(last.before.entities) :
               LET name == last.before.entities[i].name
               IN  name \notin NamedIn(last.arg) =>
                       /\ NameStored(db, name)
                       /\ RowOf(db, name) = last.before.entities[i]
                       /\ select_observations(db.observations, name)
                              = select_observations(last.before.observations, name)

C37_Witness ==
    /\ last.op = "create_entities" /\ last.ok
    /\ NamedIn(last.arg) = {nA}
    /\ NameStored(last.before, nA)
    /\ NameStored(last.before, nB)
    /\ RowOf(db, nA).entity_type # RowOf(last.before, nA).entity_type
    /\ \E i \in 1..Len(db.relations) : db.relations[i].source = nA
    /\ \E i \in 1..Len(db.relations) : db.relations[i].target = nA

\* C38: get_entity, search_nodes, read_graph and get_entity_with_relations
\* leave the entities, the observations and the relations as they found
\* them, whether they succeed or fail.
C38_ReadsChangeNothing ==
    (last.op \in {"get_entity", "search_nodes", "read_graph",
                  "get_entity_with_relations"}) =>
        db = last.before

C38_Witness ==
    /\ last.op = "get_entity_with_relations" /\ last.ok
    /\ last.result.relatedEntities # <<>>
    /\ db.observations # <<>>

C38_WitnessFailed ==
    /\ last.op = "get_entity" /\ ~last.ok
    /\ db.entities # <<>>
    /\ db.relations # <<>>

OnlyHyphensAndUnderscores(q) ==
    /\ q # <<>>
    /\ \A k \in 1..Len(q) : q[k] \in {"-", "_"}

\* C39: search_nodes with a query made of hyphens and underscores only
\* succeeds and returns, as name matches, the most recently created
\* entities: all of them up to the clamped limit.
C39_SeparatorQueryReturnsMostRecent ==
    (last.op = "search_nodes" /\ OnlyHyphensAndUnderscores(last.arg[1])) =>
        /\ last.ok
        /\ EntityNames(last.result.entities)
               = MostRecent(db, Clamped(RequestedLimit(last.arg[2])))
        /\ \A i \in 1..Len(last.result.entities) :
               MatchRank(last.result.entities[i], last.arg[1]) = 3

\* the part of C39 that does not depend on the order of creation
C39_SeparatorQueryMatchesAll ==
    (last.op = "search_nodes" /\ OnlyHyphensAndUnderscores(last.arg[1])) =>
        /\ last.ok
        /\ Len(last.result.entities)
               = Min(Len(db.entities), Clamped(RequestedLimit(last.arg[2])))
        /\ \A i \in 1..Len(last.result.entities) :
               MatchRank(last.result.entities[i], last.arg[1]) = 3

----------------------------------------------------------------------------
(* Concurrency and shutdown: C33, C34, C40 *)

\* what a step is seen to change
observed == <<db, last.op, last.ok, last.err, instance, connections, pending, tx>>

\* the manager's connection has been closed
Closed == instance # <<>> /\ ~connections[instance[1].db].open

\* the loop of the suspended call is about to fetch a neighbour that was
\* deleted after the relations were read
NeighbourGone ==
    /\ pending # <<>>
    /\ pending[1].read
    /\ pending[1].names # <<>>
    /\ ~Closed
    /\ ~NameStored(db, Head(pending[1].names))

\* C33: when delete_entity(B) takes effect between the step of
\* get_entity_with_relations(A) that reads A's relations and the step that
\* fetches B, the call goes on and succeeds: it returns the relations as they
\* were read, the one to B included, and B is not among relatedEntities.
C33_DeletedNeighbourIsOmitted ==
    [][ /\ (NeighbourGone /\ pending' # pending) =>
               /\ pending' # <<>>
               /\ pending'[1].err = "none"
               /\ pending'[1].relations = pending[1].relations
               /\ pending'[1].related = pending[1].related
               /\ \E i \in 1..Len(pending[1].relations) :
                      Head(pending[1].names) \in
                          {pending[1].relations[i].from, pending[1].relations[i].to}
        /\ (pending # <<>> /\ pending' = <<>> /\ pending[1].err = "none") =>
               /\ last'.ok
               /\ last'.result.relations = pending[1].relations
               /\ last'.result.relatedEntities = pending[1].related ]_observed

C33_Witness ==
    /\ last.op = "get_entity_with_relations"
    /\ last.ok
    /\ ~Closed
    /\ \E i \in 1..Len(last.result.relations) :
          \E B \in {last.result.relations[i].from, last.result.relations[i].to} :
              /\ B # last.arg
              /\ ~NameStored(db, B)
              /\ \A j \in 1..Len(last.result.relatedEntities) :
                     last.result.relatedEntities[j].name # B

\* no batch is applied in part and no cascade is left half done: every entity
\* has its observations and every row names a stored entity
Whole(d) ==
    /\ \A i \in 1..Len(d.entities) :
           \E j \in 1..Len(d.observations) :
               d.observations[j].entity_name = d.entities[i].name
    /\ \A j \in 1..Len(d.observations) : NameStored(d, d.observations[j].entity_name)
    /\ \A j \in 1..Len(d.relations) :
           NameStored(d, d.relations[j].source) /\ NameStored(d, d.relations[j].target)

\* C34: the close on the termination signal does not happen in the middle of
\* a write: once the connection is closed, no transaction is left with some
\* of its statements applied, and the store holds whole batches and whole
\* cascades only.
C34_CloseBetweenTransactions ==
    Closed => /\ Whole(db)
              /\ tx # <<>> => db = tx[1].snapshot

\* the connection was closed right after a cascade was committed
C34_Witness ==
    /\ Closed
    /\ last.op = "delete_entity"
    /\ last.ok
    /\ Len(last.before.relations) > Len(db.relations)
    /\ Len(db.entities) > 0

\* a call that was issued and answered in this step
IssuedAndAnswered ==
    last.op = "idle" /\ last'.op # "idle" /\ pending' = pending /\ tx = <<>>

\* C40 as stated: after close(), get_instance returns the same manager with
\* its closed connection, and every store operation issued through it fails.
C40_OperationsAfterCloseFail ==
    [][ Closed =>
          /\ instance' = instance
          /\ connections' = connections
          /\ db' = db
          /\ IssuedAndAnswered =>
                IF last'.op = "get_instance"
                THEN last'.ok /\ last'.result = instance
                ELSE ~last'.ok ]_observed

\* C40: after close(), get_instance returns the same manager with its closed
\* connection, and every store operation that reaches the connection fails;
\* create_relations of an empty list returns before it reaches it.
C40_SingletonStaysClosed ==
    [][ Closed =>
          /\ instance' = instance
          /\ connections' = connections
          /\ db' = db
          /\ IssuedAndAnswered =>
                IF last'.op = "get_instance"
                THEN last'.ok /\ last'.result = instance
                ELSE IF last'.op = "create_relations" /\ last'.arg = <<>>
                THEN last'.ok
                ELSE ~last'.ok /\ last'.err = "not_open" ]_observed

C40_Witness ==
    /\ Closed
    /\ last.op = "create_entities"
    /\ last.err = "not_open"
    /\ Len(connections) = 1

----------------------------------------------------------------------------
(* Schema creation: C32 *)

\* C32: running initialize, or the migration list after it, on a file that
\* already holds entities, observations and relations succeeds and leaves
\* every table the file held as it was.
C32_SchemaCreationIdempotent ==
    last.op \in {"initialize", "run_migrations"} =>
        /\ last.ok
        /\ \A t \in DOMAIN last.before : t \in DOMAIN db /\ db[t] = last.before[t]

\* the migration list was run on a populated store
C32_Witness ==
    /\ last.op = "run_migrations"
    /\ last.ok
    /\ "entities_vec" \in DOMAIN last.before
    /\ Len(last.before.entities) > 1
    /\ Len(last.before.observations) > 1
    /\ Len(last.before.relations) > 0
    /\ Len(last.before.entities_vec) > 0

\* initialize was run on a populated store
C32_WitnessInitialize ==
    /\ last.op = "initialize"
    /\ last.ok
    /\ "entities" \in DOMAIN last.before
    /\ Len(last.before.entities) > 1
    /\ Len(last.before.relations) > 0

----------------------------------------------------------------------------
(* Failures reach the caller: C31 *)

\* C31 as stated: a failure inside an operation is reported to the caller as
\* a failed call; no call succeeds after only logging a failure of one of
\* its statements.
C31_NoFailureSwallowed ==
    last.op = "search_similar" => (last.result.warned = {} \/ ~last.ok)

\* a search over rows that can all be read returns every one of them
C31_ReadableRowsReturned ==
    (last.op = "search_similar" /\ last.ok /\ last.arg[4] = {}) =>
        last.result.warned = {}

====
